---- MODULE Spec2Model ----
(***************************************************************************)
(* sniplate: the snips table, the SnipModel store operations               *)
(* (internal/data/snips.go) and the request handlers that call them        *)
(* (cmd/api/snips.go), as a state machine.                                 *)
(*                                                                         *)
(* Every SQL statement is one atomic step: PostgreSQL runs a single        *)
(* statement against one snapshot and applies its write under the row      *)
(* lock.  The only handler with two statements is updateSnipHandler        *)
(* (Get, then Update); other requests may run between its two steps.       *)
(***************************************************************************)
EXTENDS Integers, Sequences, FiniteSets, TLC

VARIABLES
    table,   \* the snips table: id -> row, for the rows that exist
    seq,     \* last value handed out by the bigserial sequence of snips.id
    pc,      \* per client: "idle", or "fetched" inside updateSnipHandler
    snip,    \* per client: the record updateSnipHandler fetched with Get
    log,     \* per client: the statements its PATCH request has issued so far
    applied, \* history: <<id, version>> -> number of Update calls carrying it
             \* that returned without error
    inserted,\* history: id -> the record Insert handed back for it, kept
             \* while no statement has written to that row since
    deleted, \* history: id -> number of Delete calls for it that returned
             \* without error
    last,    \* the operation under observation: the one that ends the
             \* behaviour, with the table it started from
    writes,  \* number of statements that changed the table or the sequence
             \* ahead of the observed operation
    pending  \* the store call that is waiting for the executor under its
             \* context.WithTimeout, with the seconds it has waited

vars ==
    <<table, seq, pc, snip, log, applied, inserted, deleted, last, writes,
      pending>>

---------------------------------------------------------------------------
(* Bounds of the model. *)

\* Statements that change the store (the table or its id sequence) ahead of
\* the observed operation; reads and statements that change nothing are not
\* limited, and the observed operation may write once more.
MaxWrites == 2

\* The two concurrent clients.
Procs == {"p1", "p2"}

\* The database clock NOW() when the INSERT that draws id sq + 1 runs, in
\* seconds (timestamp(0)): it has moved on between two inserts.
Now(sq) == 100 * (sq + 1)

---------------------------------------------------------------------------
(* Values *)

\* A Go []string: nil, or a (possibly empty) sequence.
NilTags == [isNil |-> TRUE, elems |-> <<>>]

MkTags(s) == [isNil |-> FALSE, elems |-> s]

\* The zero value of data.Snip.
ZeroSnip ==
    [ID |-> 0, CreatedAt |-> 0, Title |-> "", Content |-> "",
     Tags |-> NilTags, Version |-> 0]

ErrNone == "nil"

ErrRecordNotFound == "ErrRecordNotFound"

ErrEditConflict == "ErrEditConflict"

\* The error PostgreSQL raises for a NULL in a NOT NULL column.
ErrNotNull == "pq: null value in column tags violates not-null constraint"

\* Failures of the storage executor itself (connection pool, 3 s context).
ExecErrs == {"driver: bad connection", "context deadline exceeded"}

\* What the executor does with a statement in a step of Next: it runs it, or
\* it fails before the statement has any effect.
ExecOutcomes == {"ok"} \cup ExecErrs

Range(s) == {s[i] : i \in DOMAIN s}

---------------------------------------------------------------------------
(* Strings the code parses or formats are sequences of characters. *)

Digits == <<"0", "1", "2", "3", "4", "5", "6", "7", "8", "9">>

DigitVal(c) == (CHOOSE i \in 1..10 : Digits[i] = c) - 1

IsDigit(c) == \E i \in 1..10 : Digits[i] = c

RECURSIVE DigitsValue(_)
DigitsValue(s) ==
    IF s = <<>> THEN 0
    ELSE 10 * DigitsValue(SubSeq(s, 1, Len(s) - 1)) + DigitVal(s[Len(s)])

\* strconv.ParseInt(s, 10, 64) and strconv.Atoi(s): an optional sign, then
\* one or more decimal digits; anything else is an error.
ParseInt(s) ==
    LET signed == Len(s) > 0 /\ s[1] \in {"-", "+"}
        body   == IF signed THEN Tail(s) ELSE s
    IN  IF body = <<>> \/ \E i \in DOMAIN body : ~IsDigit(body[i])
        THEN [ok |-> FALSE, val |-> 0]
        ELSE [ok |-> TRUE,
              val |-> IF signed /\ s[1] = "-" THEN 0 - DigitsValue(body)
                      ELSE DigitsValue(body)]

\* strconv.Itoa(n).
RECURSIVE Itoa(_)
Itoa(n) ==
    IF n < 0 THEN <<"-">> \o Itoa(0 - n)
    ELSE IF n < 10 THEN <<Digits[n + 1]>>
    ELSE Itoa(n \div 10) \o <<Digits[(n % 10) + 1]>>

---------------------------------------------------------------------------
(* internal/validator: a map from field name to the first message recorded *)
(* for it.                                                                 *)

NewValidator == <<>>

AddError(v, key, message) ==
    IF key \in DOMAIN v THEN v ELSE v @@ (key :> message)

Check(v, ok, key, message) == IF ok THEN v ELSE AddError(v, key, message)

Valid(v) == DOMAIN v = {}

Unique(values) == Cardinality(Range(values)) = Len(values)

RECURSIVE CheckEach(_, _, _)
\* the loop of ValidateSnip over the tags, from index i on
CheckEach(v, tags, i) ==
    IF i > Len(tags) THEN v
    ELSE CheckEach(Check(v, tags[i] # "", "tags", "tags must not contain empty values"),
                   tags, i + 1)

\* ValidateSnip with the bound its message names: no more than 5 tags.
ValidateSnipFiveTags(v, s) ==
    LET tags == s.Tags.elems
        v1 == Check(v, s.Title # "", "title", "must be provided")
        v2 == Check(v1, Len(s.Title) <= 1000, "title",
                    "must not be more than 500 bytes long")
        v3 == Check(v2, Len(s.Content) <= 100000, "content",
                    "must not be more than 100000 bytes long")
        v4 == Check(v3, Len(tags) >= 0, "tags", "may not contain negative tags")
        v5 == Check(v4, Len(tags) <= 5, "tags", "must contain no more than 5 tags")
        v6 == Check(v5, Unique(tags), "tags", "must not contain duplicate values")
    IN  CheckEach(v6, tags, 1)

\* ValidateSnip returning at the first check that fails.
ValidateSnipShortCircuit(v, s) ==
    LET tags == s.Tags.elems
    IN  IF s.Title = "" THEN AddError(v, "title", "must be provided")
        ELSE IF Len(s.Title) > 1000
        THEN AddError(v, "title", "must not be more than 500 bytes long")
        ELSE IF Len(s.Content) > 100000
        THEN AddError(v, "content", "must not be more than 100000 bytes long")
        ELSE IF Len(tags) > 10
        THEN AddError(v, "tags", "must contain no more than 5 tags")
        ELSE IF ~Unique(tags)
        THEN AddError(v, "tags", "must not contain duplicate values")
        ELSE CheckEach(v, tags, 1)

ValidateSnip(v, s) ==
    LET tags == s.Tags.elems
        v1 == Check(v, s.Title # "", "title", "must be provided")
        v2 == Check(v1, Len(s.Title) <= 1000, "title",
                    "must not be more than 500 bytes long")
        v3 == Check(v2, Len(s.Content) <= 100000, "content",
                    "must not be more than 100000 bytes long")
        v4 == Check(v3, Len(tags) >= 0, "tags", "may not contain negative tags")
        v5 == Check(v4, Len(tags) <= 10, "tags", "must contain no more than 5 tags")
        v6 == Check(v5, Unique(tags), "tags", "must not contain duplicate values")
    IN  CheckEach(v6, tags, 1)

---------------------------------------------------------------------------
(* The storage executor: lib/pq and the snips table of the migration.      *)

\* pq.Array(tags) as a statement argument: a nil slice is sent as NULL.
PqArrayValue(tags) ==
    IF tags.isNil THEN [null |-> TRUE, arr |-> <<>>]
    ELSE [null |-> FALSE, arr |-> tags.elems]

\* pq.Array(&snip.Tags) as a scan target of a fresh Snip: always a non-nil slice.
PqArrayScan(arr) == MkTags(arr)

\* ScanRow with the title and content scan targets in each other's place.
ScanRowSwapped(row) ==
    [ID |-> row.id, CreatedAt |-> row.created_at, Title |-> row.content,
     Content |-> row.title, Tags |-> PqArrayScan(row.tags),
     Version |-> row.version]

\* The row a SELECT of the six columns scans into a Snip.
ScanRow(row) ==
    [ID |-> row.id, CreatedAt |-> row.created_at, Title |-> row.title,
     Content |-> row.content, Tags |-> PqArrayScan(row.tags),
     Version |-> row.version]

\* The column defaults of CREATE TABLE snips.
DefaultVersion == 1

\* NewRow with the caller's Version among the inserted columns.
NewRowClientVersion(id, now, s, tagsArg) ==
    [id |-> id, created_at |-> now, title |-> s.Title, content |-> s.Content,
     tags |-> tagsArg.arr, version |-> s.Version]

\* INSERT INTO snips (title, content, tags): id from the sequence,
\* created_at from NOW(), version from its default.
NewRow(id, now, s, tagsArg) ==
    [id |-> id, created_at |-> now, title |-> s.Title, content |-> s.Content,
     tags |-> tagsArg.arr, version |-> DefaultVersion]

---------------------------------------------------------------------------
(* SnipModel: each operation maps the table (and its input) to the new     *)
(* table, the error returned, the Snip as the caller sees it afterwards,   *)
(* and the statements sent to the executor.                                *)

\* Insert without the Scan of RETURNING id, created_at, version: the caller's
\* record comes back as it was handed in.
InsertKeepsInput(tbl, sq, now, s, exec) ==
    LET tagsArg == PqArrayValue(s.Tags)
        id      == sq + 1
    IN  IF exec # "ok"
        THEN [table |-> tbl, seq |-> sq, err |-> exec, snip |-> s,
              stmts |-> <<"INSERT">>]
        ELSE IF tagsArg.null
        THEN [table |-> tbl, seq |-> id, err |-> ErrNotNull, snip |-> s,
              stmts |-> <<"INSERT">>]
        ELSE [table |-> tbl @@ (id :> NewRow(id, now, s, tagsArg)),
              seq   |-> id,
              err   |-> ErrNone,
              snip  |-> s,
              stmts |-> <<"INSERT">>]

\* Insert taking the lowest id that no stored row has, not the next value of
\* the sequence.
InsertReusesId(tbl, sq, now, s, exec) ==
    LET tagsArg == PqArrayValue(s.Tags)
        id      == CHOOSE i \in 1..(sq + 1) :
                      i \notin DOMAIN tbl /\ \A j \in 1..(i - 1) : j \in DOMAIN tbl
    IN  IF exec # "ok"
        THEN [table |-> tbl, seq |-> sq, err |-> exec, snip |-> s,
              stmts |-> <<"INSERT">>]
        ELSE IF tagsArg.null
        THEN [table |-> tbl, seq |-> sq + 1, err |-> ErrNotNull, snip |-> s,
              stmts |-> <<"INSERT">>]
        ELSE [table |-> tbl @@ (id :> NewRow(id, now, s, tagsArg)),
              seq   |-> sq + 1,
              err   |-> ErrNone,
              snip  |-> [s EXCEPT !.ID = id, !.CreatedAt = now,
                                  !.Version = DefaultVersion],
              stmts |-> <<"INSERT">>]

\* nextval is taken when the row is formed, before NOT NULL is checked: a
\* rejected INSERT still consumes an id.
Insert(tbl, sq, now, s, exec) ==
    LET tagsArg == PqArrayValue(s.Tags)
        id      == sq + 1
    IN  IF exec # "ok"
        THEN [table |-> tbl, seq |-> sq, err |-> exec, snip |-> s,
              stmts |-> <<"INSERT">>]
        ELSE IF tagsArg.null
        THEN [table |-> tbl, seq |-> id, err |-> ErrNotNull, snip |-> s,
              stmts |-> <<"INSERT">>]
        ELSE [table |-> tbl @@ (id :> NewRow(id, now, s, tagsArg)),
              seq   |-> id,
              err   |-> ErrNone,
              snip  |-> [s EXCEPT !.ID = id, !.CreatedAt = now,
                                  !.Version = DefaultVersion],
              stmts |-> <<"INSERT">>]

\* Get without the id < 1 return: every id goes to the executor.
GetNoShortCircuit(tbl, id, exec) ==
    IF exec # "ok"
    THEN [err |-> exec, snip |-> ZeroSnip, stmts |-> <<"SELECT">>]
    ELSE IF id \notin DOMAIN tbl
    THEN [err |-> ErrRecordNotFound, snip |-> ZeroSnip, stmts |-> <<"SELECT">>]
    ELSE [err |-> ErrNone, snip |-> ScanRow(tbl[id]), stmts |-> <<"SELECT">>]

Get(tbl, id, exec) ==
    IF id < 1
    THEN [err |-> ErrRecordNotFound, snip |-> ZeroSnip, stmts |-> <<>>]
    ELSE IF exec # "ok"
    THEN [err |-> exec, snip |-> ZeroSnip, stmts |-> <<"SELECT">>]
    ELSE IF id \notin DOMAIN tbl
    THEN [err |-> ErrRecordNotFound, snip |-> ZeroSnip, stmts |-> <<"SELECT">>]
    ELSE [err |-> ErrNone, snip |-> ScanRow(tbl[id]), stmts |-> <<"SELECT">>]

\* UpdateMatches as WHERE id = $4: no version predicate.
UpdateMatchesIdOnly(row, s) == row.id = s.ID

\* UpdateMatches as WHERE id = $4 AND version >= $5.
UpdateMatchesAtLeast(row, s) == row.id = s.ID /\ row.version >= s.Version

\* WHERE id = $4 AND version = $5
UpdateMatches(row, s) == row.id = s.ID /\ row.version = s.Version

\* UpdateSet without tags = $3.
UpdateSetNoTags(row, s, tagsArg) ==
    [row EXCEPT !.title = s.Title, !.content = s.Content,
                !.version = row.version + 1]

\* UpdateSet with created_at written from the record as well.
UpdateSetCreatedAt(row, s, tagsArg) ==
    [row EXCEPT !.title = s.Title, !.content = s.Content,
                !.tags = tagsArg.arr, !.version = row.version + 1,
                !.created_at = s.CreatedAt]

\* SET title = $1, content = $2, tags = $3, version = version + 1
UpdateSet(row, s, tagsArg) ==
    [row EXCEPT !.title = s.Title, !.content = s.Content,
                !.tags = tagsArg.arr, !.version = row.version + 1]

\* Update with sql.ErrNoRows mapped to ErrRecordNotFound, as in Get.
UpdateNotFound(tbl, s, exec) ==
    LET tagsArg == PqArrayValue(s.Tags)
        hit     == {id \in DOMAIN tbl : UpdateMatches(tbl[id], s)}
    IN  IF exec # "ok"
        THEN [table |-> tbl, err |-> exec, snip |-> s, stmts |-> <<"UPDATE">>]
        ELSE IF hit = {}
        THEN [table |-> tbl, err |-> ErrRecordNotFound, snip |-> s,
              stmts |-> <<"UPDATE">>]
        ELSE IF tagsArg.null
        THEN [table |-> tbl, err |-> ErrNotNull, snip |-> s,
              stmts |-> <<"UPDATE">>]
        ELSE LET new == [id \in DOMAIN tbl |->
                            IF id \in hit THEN UpdateSet(tbl[id], s, tagsArg)
                            ELSE tbl[id]]
                 id0 == CHOOSE id \in hit : TRUE
             IN  [table |-> new, err |-> ErrNone,
                  snip  |-> [s EXCEPT !.Version = new[id0].version],
                  stmts |-> <<"UPDATE">>]

\* Update with every error of the statement mapped to ErrEditConflict.
UpdateAnyErrorConflict(tbl, s, exec) ==
    LET tagsArg == PqArrayValue(s.Tags)
        hit     == {id \in DOMAIN tbl : UpdateMatches(tbl[id], s)}
    IN  IF exec # "ok" \/ hit = {} \/ tagsArg.null
        THEN [table |-> tbl, err |-> ErrEditConflict, snip |-> s,
              stmts |-> <<"UPDATE">>]
        ELSE LET new == [id \in DOMAIN tbl |->
                            IF id \in hit THEN UpdateSet(tbl[id], s, tagsArg)
                            ELSE tbl[id]]
                 id0 == CHOOSE id \in hit : TRUE
             IN  [table |-> new, err |-> ErrNone,
                  snip  |-> [s EXCEPT !.Version = new[id0].version],
                  stmts |-> <<"UPDATE">>]
\* Update sending its statement a second time when the executor failed.
UpdateRetries(tbl, s, exec) ==
    LET tagsArg == PqArrayValue(s.Tags)
        hit     == {id \in DOMAIN tbl : UpdateMatches(tbl[id], s)}
    IN  IF exec # "ok"
        THEN [table |-> tbl, err |-> exec, snip |-> s,
              stmts |-> <<"UPDATE", "UPDATE">>]
        ELSE IF hit = {}
        THEN [table |-> tbl, err |-> ErrEditConflict, snip |-> s,
              stmts |-> <<"UPDATE">>]
        ELSE IF tagsArg.null
        THEN [table |-> tbl, err |-> ErrNotNull, snip |-> s,
              stmts |-> <<"UPDATE">>]
        ELSE LET new == [id \in DOMAIN tbl |->
                            IF id \in hit THEN UpdateSet(tbl[id], s, tagsArg)
                            ELSE tbl[id]]
                 id0 == CHOOSE id \in hit : TRUE
             IN  [table |-> new, err |-> ErrNone,
                  snip  |-> [s EXCEPT !.Version = new[id0].version],
                  stmts |-> <<"UPDATE">>]

Update(tbl, s, exec) ==
    LET tagsArg == PqArrayValue(s.Tags)
        hit     == {id \in DOMAIN tbl : UpdateMatches(tbl[id], s)}
    IN  IF exec # "ok"
        THEN [table |-> tbl, err |-> exec, snip |-> s, stmts |-> <<"UPDATE">>]
        ELSE IF hit = {}
        THEN [table |-> tbl, err |-> ErrEditConflict, snip |-> s,
              stmts |-> <<"UPDATE">>]
        ELSE IF tagsArg.null
        THEN [table |-> tbl, err |-> ErrNotNull, snip |-> s,
              stmts |-> <<"UPDATE">>]
        ELSE LET new == [id \in DOMAIN tbl |->
                            IF id \in hit THEN UpdateSet(tbl[id], s, tagsArg)
                            ELSE tbl[id]]
                 id0 == CHOOSE id \in hit : TRUE
             IN  [table |-> new, err |-> ErrNone,
                  snip  |-> [s EXCEPT !.Version = new[id0].version],
                  stmts |-> <<"UPDATE">>]

\* Delete without the rowsAffected == 0 case: nil also when no row went.
DeleteIgnoresRows(tbl, id, exec) ==
    IF id < 1
    THEN [table |-> tbl, err |-> ErrRecordNotFound, stmts |-> <<>>]
    ELSE IF exec # "ok"
    THEN [table |-> tbl, err |-> exec, stmts |-> <<"DELETE">>]
    ELSE [table |-> [i \in DOMAIN tbl \ {id} |-> tbl[i]], err |-> ErrNone,
          stmts |-> <<"DELETE">>]

Delete(tbl, id, exec) ==
    IF id < 1
    THEN [table |-> tbl, err |-> ErrRecordNotFound, stmts |-> <<>>]
    ELSE IF exec # "ok"
    THEN [table |-> tbl, err |-> exec, stmts |-> <<"DELETE">>]
    ELSE IF id \notin DOMAIN tbl
    THEN [table |-> tbl, err |-> ErrRecordNotFound, stmts |-> <<"DELETE">>]
    ELSE [table |-> [i \in DOMAIN tbl \ {id} |-> tbl[i]], err |-> ErrNone,
          stmts |-> <<"DELETE">>]

---------------------------------------------------------------------------
(* Filters, Metadata and the search.                                       *)

\* The text values of the model in the order PostgreSQL compares them.
Collation == <<"", "c", "c2", "t", "u">>

TextRank(s) == CHOOSE i \in 1..Len(Collation) : Collation[i] = s

\* to_tsvector('simple', s) and plainto_tsquery('simple', s): the lower-cased
\* words of s.
Lexemes(s) ==
    CASE s = ""    -> {}
      [] s = "t"   -> {"t"}
      [] s = "T"   -> {"t"}
      [] s = "u"   -> {"u"}
      [] s = "t u" -> {"t", "u"}
      [] OTHER     -> {s}

HasPrefix(s, c) == Len(s) > 0 /\ s[1] = c

TrimPrefix(s, c) == IF HasPrefix(s, c) THEN Tail(s) ELSE s

PermittedValue(value, permitted) == value \in Range(permitted)

ValidateFilters(v, f) ==
    LET v1 == Check(v, f.Page > 0, "page", "must be greater than zero")
        v2 == Check(v1, f.Page <= 10000000, "page", "must be a maximum of 10 million")
        v3 == Check(v2, f.PageSize > 0, "page_size", "must be greater than zero")
        v4 == Check(v3, f.PageSize <= 100, "page_size", "must be a maximum of 100")
    IN  Check(v4, PermittedValue(f.Sort, f.SortSafelist), "sort", "invalid sort value")

\* "panic" stands for the panic on a sort value outside the safelist.
sortColumn(f) ==
    IF f.Sort \in Range(f.SortSafelist) THEN TrimPrefix(f.Sort, "-")
    ELSE <<"p", "a", "n", "i", "c">>

sortDirection(f) == IF HasPrefix(f.Sort, "-") THEN "DESC" ELSE "ASC"

limit(f) == f.PageSize

offset(f) == (f.Page - 1) * f.PageSize

ZeroMetadata ==
    [CurrentPage |-> 0, PageSize |-> 0, FirstPage |-> 0, LastPage |-> 0,
     TotalRecords |-> 0]

\* calculateMetadata with last_page rounded down.
calculateMetadataFloor(totalRecords, page, pageSize) ==
    IF totalRecords = 0 THEN ZeroMetadata
    ELSE [CurrentPage |-> page, PageSize |-> pageSize, FirstPage |-> 1,
          LastPage |-> totalRecords \div pageSize,
          TotalRecords |-> totalRecords]

calculateMetadata(totalRecords, page, pageSize) ==
    IF totalRecords = 0 THEN ZeroMetadata
    ELSE [CurrentPage |-> page, PageSize |-> pageSize, FirstPage |-> 1,
          LastPage |-> (totalRecords + pageSize - 1) \div pageSize,
          TotalRecords |-> totalRecords]

\* RowMatches with tags = $2 in the place of tags @> $2.
RowMatchesTagsEqual(row, title, tags) ==
    /\ \/ (Lexemes(title) # {} /\ Lexemes(title) \subseteq Lexemes(row.title))
       \/ title = ""
    /\ \/ Range(tags.elems) = Range(row.tags)
       \/ tags.elems = <<>>

\* WHERE (to_tsvector('simple', title) @@ plainto_tsquery('simple', $1) OR $1 = '')
\*   AND (tags @> $2 OR $2 = '{}')
RowMatches(row, title, tags) ==
    /\ \/ (Lexemes(title) # {} /\ Lexemes(title) \subseteq Lexemes(row.title))
       \/ title = ""
    /\ \/ Range(tags.elems) \subseteq Range(row.tags)
       \/ tags.elems = <<>>

\* The value of the ORDER BY column, as a number that orders like it.
SortKey(row, column) ==
    CASE column = <<"i", "d">>                               -> row.id
      [] column = <<"t", "i", "t", "l", "e">>                -> TextRank(row.title)
      [] column = <<"c", "o", "n", "t", "e", "n", "t">>      -> TextRank(row.content)

\* RowBefore as ORDER BY <column> <direction>, id DESC.
RowBeforeTieDesc(a, b, column, direction) ==
    LET ka == SortKey(a, column)
        kb == SortKey(b, column)
    IN  IF ka # kb
        THEN IF direction = "ASC" THEN ka < kb ELSE ka > kb
        ELSE a.id > b.id

\* ORDER BY <column> <direction>, id ASC
RowBefore(a, b, column, direction) ==
    LET ka == SortKey(a, column)
        kb == SortKey(b, column)
    IN  IF ka # kb
        THEN IF direction = "ASC" THEN ka < kb ELSE ka > kb
        ELSE a.id < b.id

RECURSIVE OrderRows(_, _, _)
OrderRows(rows, column, direction) ==
    IF rows = {} THEN <<>>
    ELSE LET first == CHOOSE a \in rows :
                        \A b \in rows \ {a} : RowBefore(a, b, column, direction)
         IN  <<first>> \o OrderRows(rows \ {first}, column, direction)

\* GetAllRows without the WHERE clause.
GetAllRowsUnfiltered(tbl, title, tags, f) ==
    OrderRows({tbl[id] : id \in DOMAIN tbl}, sortColumn(f), sortDirection(f))

\* The rows of the single SELECT of GetAll, in its order.
GetAllRows(tbl, title, tags, f) ==
    OrderRows({tbl[id] : id \in {i \in DOMAIN tbl : RowMatches(tbl[i], title, tags)}},
              sortColumn(f), sortDirection(f))

\* GetAll reading one row of the result set (if rows.Next()) and not all of
\* them (for rows.Next()).
GetAllFirstRow(tbl, title, tags, f, exec) ==
    IF exec # "ok"
    THEN [snips |-> <<>>, err |-> exec, stmts |-> <<"SELECT">>]
    ELSE LET rows == GetAllRows(tbl, title, tags, f)
         IN  [snips |-> [i \in DOMAIN rows \cap {1} |-> ScanRow(rows[i])],
              err   |-> ErrNone,
              stmts |-> <<"SELECT">>]

\* GetAll answering an empty result set the way Get answers sql.ErrNoRows.
GetAllNoRowsError(tbl, title, tags, f, exec) ==
    IF exec # "ok"
    THEN [snips |-> <<>>, err |-> exec, stmts |-> <<"SELECT">>]
    ELSE LET rows == GetAllRows(tbl, title, tags, f)
         IN  [snips |-> [i \in DOMAIN rows |-> ScanRow(rows[i])],
              err   |-> IF rows = <<>> THEN ErrRecordNotFound ELSE ErrNone,
              stmts |-> <<"SELECT">>]

GetAll(tbl, title, tags, f, exec) ==
    IF exec # "ok"
    THEN [snips |-> <<>>, err |-> exec, stmts |-> <<"SELECT">>]
    ELSE LET rows == GetAllRows(tbl, title, tags, f)
         IN  [snips |-> [i \in DOMAIN rows |-> ScanRow(rows[i])],
              err   |-> ErrNone,
              stmts |-> <<"SELECT">>]

\* The match count that the same SELECT yields beside its rows (a window
\* count over the rows the WHERE clause selects).
GetAllTotal(tbl, title, tags) ==
    Cardinality({i \in DOMAIN tbl : RowMatches(tbl[i], title, tags)})

\* GetAll as listSnipsHandler calls it: the records, and the Metadata made of
\* the match count of the same SELECT.
GetAllWithMetadata(tbl, title, tags, f, exec) ==
    LET r == GetAll(tbl, title, tags, f, exec)
    IN  [snips    |-> r.snips,
         metadata |-> IF r.err # ErrNone THEN ZeroMetadata
                      ELSE calculateMetadata(GetAllTotal(tbl, title, tags),
                                             f.Page, f.PageSize),
         err      |-> r.err,
         stmts    |-> r.stmts]

---------------------------------------------------------------------------
(* cmd/api: helpers and error responses.                                   *)

\* A request body: its JSON syntax, and the keys of its object.
GoodBody(obj) == [syntax |-> "ok", obj |-> obj]

BadBody == [syntax |-> "bad", obj |-> <<>>]

\* readJSON with DisallowUnknownFields into a struct with the fields `known`.
readJSON(body, known) ==
    IF body.syntax # "ok"
    THEN [err |-> "body contains badly-formed JSON", obj |-> <<>>]
    ELSE IF ~(DOMAIN body.obj \subseteq known)
    THEN [err |-> "body contains unknown key", obj |-> <<>>]
    ELSE [err |-> ErrNone, obj |-> body.obj]

readIDParam(raw) ==
    LET r == ParseInt(raw)
    IN  IF ~r.ok \/ r.val < 1
        THEN [id |-> 0, err |-> "invalid id parameter"]
        ELSE [id |-> r.val, err |-> ErrNone]

readString(qs, key, defaultValue) ==
    IF key \notin DOMAIN qs \/ qs[key] = <<>> THEN defaultValue ELSE qs[key]

\* For the title, which the model keeps as an opaque text.
readText(qs, key, defaultValue) ==
    IF key \notin DOMAIN qs \/ qs[key] = "" THEN defaultValue ELSE qs[key]

RECURSIVE SplitComma(_, _)
\* strings.Split(csv, ","): cur is the piece being read
SplitComma(csv, cur) ==
    IF csv = <<>> THEN <<cur>>
    ELSE IF Head(csv) = "," THEN <<cur>> \o SplitComma(Tail(csv), "")
    ELSE SplitComma(Tail(csv), cur \o Head(csv))

readCSV(qs, key, defaultValue) ==
    IF key \notin DOMAIN qs \/ qs[key] = <<>> THEN defaultValue
    ELSE MkTags(SplitComma(qs[key], ""))

\* readInt yielding 0, not the default, for a parameter that is not there.
readIntNoDefault(qs, key, defaultValue, v) ==
    IF key \notin DOMAIN qs \/ qs[key] = <<>>
    THEN [val |-> 0, v |-> v]
    ELSE LET r == ParseInt(qs[key])
         IN  IF ~r.ok
             THEN [val |-> defaultValue,
                   v   |-> AddError(v, key, "must be an integer value")]
             ELSE [val |-> r.val, v |-> v]

\* Returns the integer and the validator after it.
readInt(qs, key, defaultValue, v) ==
    IF key \notin DOMAIN qs \/ qs[key] = <<>>
    THEN [val |-> defaultValue, v |-> v]
    ELSE LET r == ParseInt(qs[key])
         IN  IF ~r.ok
             THEN [val |-> defaultValue,
                   v   |-> AddError(v, key, "must be an integer value")]
             ELSE [val |-> r.val, v |-> v]

\* What a handler leaves behind: the response, and the store as it is then.
Response(status, message) ==
    [status |-> status, message |-> message, errors |-> <<>>,
     ret |-> ZeroSnip, snips |-> <<>>, metadata |-> ZeroMetadata]

serverErrorResponse ==
    Response(500, "the server encountered a problem and could not process your request")

notFoundResponse == Response(404, "the requested resource could not be found")

badRequestResponse(err) == Response(400, err)

failedValidationResponse(errors) ==
    [Response(422, "") EXCEPT !.errors = errors]

editConflictResponse ==
    Response(409, "unable to update the record due to an edit conflict, please try again")

---------------------------------------------------------------------------
(* cmd/api/snips.go: the handlers.  Each yields the store as it leaves it, *)
(* the response, the error of its last store call, the Snip it handed to   *)
(* the store and the statements it issued.                                 *)

Outcome(tbl, sq, resp, err, arg, stmts) ==
    [table |-> tbl, seq |-> sq, resp |-> resp, err |-> err, arg |-> arg,
     stmts |-> stmts]

TextField(obj, key) == IF key \in DOMAIN obj THEN obj[key] ELSE ""

TagsField(obj) == IF "tags" \in DOMAIN obj THEN MkTags(obj["tags"]) ELSE NilTags

SnipFields == {"title", "content", "tags"}

\* createSnipHandler with the Insert ahead of ValidateSnip.
createSnipHandlerInsertFirst(tbl, sq, now, body, exec) ==
    LET dec == readJSON(body, SnipFields)
        s   == [ZeroSnip EXCEPT !.Title = TextField(dec.obj, "title"),
                                !.Content = TextField(dec.obj, "content"),
                                !.Tags = TagsField(dec.obj)]
        r   == Insert(tbl, sq, now, s, exec)
        v   == ValidateSnip(NewValidator, s)
    IN  IF dec.err # ErrNone
        THEN Outcome(tbl, sq, badRequestResponse(dec.err), ErrNone, ZeroSnip, <<>>)
        ELSE IF r.err # ErrNone
        THEN Outcome(r.table, r.seq, serverErrorResponse, r.err, s, r.stmts)
        ELSE IF ~Valid(v)
        THEN Outcome(r.table, r.seq, failedValidationResponse(v), ErrNone, s, r.stmts)
        ELSE Outcome(r.table, r.seq, [Response(201, "") EXCEPT !.ret = r.snip],
                     ErrNone, s, r.stmts)

createSnipHandler(tbl, sq, now, body, exec) ==
    LET dec == readJSON(body, SnipFields)
        s   == [ZeroSnip EXCEPT !.Title = TextField(dec.obj, "title"),
                                !.Content = TextField(dec.obj, "content"),
                                !.Tags = TagsField(dec.obj)]
        v   == ValidateSnip(NewValidator, s)
        r   == Insert(tbl, sq, now, s, exec)
    IN  IF dec.err # ErrNone
        THEN Outcome(tbl, sq, badRequestResponse(dec.err), ErrNone, ZeroSnip, <<>>)
        ELSE IF ~Valid(v)
        THEN Outcome(tbl, sq, failedValidationResponse(v), ErrNone, s, <<>>)
        ELSE IF r.err # ErrNone
        THEN Outcome(r.table, r.seq, serverErrorResponse, r.err, s, r.stmts)
        ELSE Outcome(r.table, r.seq, [Response(201, "") EXCEPT !.ret = r.snip],
                     ErrNone, s, r.stmts)

showSnipHandler(tbl, sq, rawId, exec) ==
    LET p == readIDParam(rawId)
        g == Get(tbl, p.id, exec)
    IN  IF p.err # ErrNone
        THEN Outcome(tbl, sq, notFoundResponse, ErrNone, ZeroSnip, <<>>)
        ELSE IF g.err = ErrRecordNotFound
        THEN Outcome(tbl, sq, notFoundResponse, g.err, ZeroSnip, g.stmts)
        ELSE IF g.err # ErrNone
        THEN Outcome(tbl, sq, serverErrorResponse, g.err, ZeroSnip, g.stmts)
        ELSE Outcome(tbl, sq, [Response(200, "") EXCEPT !.ret = g.snip],
                     ErrNone, ZeroSnip, g.stmts)

deleteSnipHandler(tbl, sq, rawId, exec) ==
    LET p == readIDParam(rawId)
        d == Delete(tbl, p.id, exec)
    IN  IF p.err # ErrNone
        THEN Outcome(tbl, sq, notFoundResponse, ErrNone, ZeroSnip, <<>>)
        ELSE IF d.err = ErrRecordNotFound
        THEN Outcome(d.table, sq, notFoundResponse, d.err, ZeroSnip, d.stmts)
        ELSE IF d.err # ErrNone
        THEN Outcome(d.table, sq, serverErrorResponse, d.err, ZeroSnip, d.stmts)
        ELSE Outcome(d.table, sq, Response(200, "snip successfully deleted"),
                     ErrNone, ZeroSnip, d.stmts)

\* updateSnipFetch answering a failed Get with the text of its error.
updateSnipFetchErrorText(tbl, sq, rawId, exec) ==
    LET p == readIDParam(rawId)
        g == Get(tbl, p.id, exec)
    IN  IF p.err # ErrNone
        THEN [fetched |-> FALSE, snip |-> ZeroSnip,
              out |-> Outcome(tbl, sq, notFoundResponse, ErrNone, ZeroSnip, <<>>)]
        ELSE IF g.err = ErrRecordNotFound
        THEN [fetched |-> FALSE, snip |-> ZeroSnip,
              out |-> Outcome(tbl, sq, notFoundResponse, g.err, ZeroSnip, g.stmts)]
        ELSE IF g.err # ErrNone
        THEN [fetched |-> FALSE, snip |-> ZeroSnip,
              out |-> Outcome(tbl, sq, Response(500, g.err), g.err, ZeroSnip, g.stmts)]
        ELSE [fetched |-> TRUE, snip |-> g.snip,
              out |-> Outcome(tbl, sq, Response(0, ""), ErrNone, ZeroSnip, g.stmts)]

\* updateSnipHandler up to and including its Get.  fetched: the handler goes on.
updateSnipFetch(tbl, sq, rawId, exec) ==
    LET p == readIDParam(rawId)
        g == Get(tbl, p.id, exec)
    IN  IF p.err # ErrNone
        THEN [fetched |-> FALSE, snip |-> ZeroSnip,
              out |-> Outcome(tbl, sq, notFoundResponse, ErrNone, ZeroSnip, <<>>)]
        ELSE IF g.err = ErrRecordNotFound
        THEN [fetched |-> FALSE, snip |-> ZeroSnip,
              out |-> Outcome(tbl, sq, notFoundResponse, g.err, ZeroSnip, g.stmts)]
        ELSE IF g.err # ErrNone
        THEN [fetched |-> FALSE, snip |-> ZeroSnip,
              out |-> Outcome(tbl, sq, serverErrorResponse, g.err, ZeroSnip, g.stmts)]
        ELSE [fetched |-> TRUE, snip |-> g.snip,
              out |-> Outcome(tbl, sq, Response(0, ""), ErrNone, ZeroSnip, g.stmts)]

\* MergeInput with the content assigned from the body whether it is there
\* or not.
MergeInputContentAlways(s, obj) ==
    [s EXCEPT !.Title = IF "title" \in DOMAIN obj THEN obj["title"] ELSE @,
              !.Content = IF "content" \in DOMAIN obj THEN obj["content"] ELSE "",
              !.Tags = IF "tags" \in DOMAIN obj THEN MkTags(obj["tags"]) ELSE @]

\* The partial update: a key of the body replaces the field, an absent key
\* (a nil pointer, a nil slice) leaves it.
MergeInput(s, obj) ==
    [s EXCEPT !.Title = IF "title" \in DOMAIN obj THEN obj["title"] ELSE @,
              !.Content = IF "content" \in DOMAIN obj THEN obj["content"] ELSE @,
              !.Tags = IF "tags" \in DOMAIN obj THEN MkTags(obj["tags"]) ELSE @]

\* VersionMismatch with the header never looked at.
VersionMismatchIgnored(s, header) == FALSE

\* X-Expected-Version: present and not the decimal form of the fetched version.
VersionMismatch(s, header) == header # <<>> /\ Itoa(s.Version) # header

\* updateSnipWrite with the Update ahead of ValidateSnip.
updateSnipWriteUpdateFirst(tbl, sq, s0, header, body, exec, issued) ==
    LET dec == readJSON(body, SnipFields)
        s   == MergeInput(s0, dec.obj)
        v   == ValidateSnip(NewValidator, s)
        u   == Update(tbl, s, exec)
    IN  IF VersionMismatch(s0, header)
        THEN Outcome(tbl, sq, editConflictResponse, ErrNone, ZeroSnip, issued)
        ELSE IF dec.err # ErrNone
        THEN Outcome(tbl, sq, badRequestResponse(dec.err), ErrNone, ZeroSnip, issued)
        ELSE IF u.err = ErrEditConflict
        THEN Outcome(u.table, sq, editConflictResponse, u.err, s, issued \o u.stmts)
        ELSE IF u.err # ErrNone
        THEN Outcome(u.table, sq, serverErrorResponse, u.err, s, issued \o u.stmts)
        ELSE IF ~Valid(v)
        THEN Outcome(u.table, sq, failedValidationResponse(v), ErrNone, s,
                     issued \o u.stmts)
        ELSE Outcome(u.table, sq, [Response(200, "") EXCEPT !.ret = u.snip],
                     ErrNone, s, issued \o u.stmts)

\* updateSnipHandler after its Get: s0 is the fetched record, issued the
\* statements of the request so far.
updateSnipWrite(tbl, sq, s0, header, body, exec, issued) ==
    LET dec == readJSON(body, SnipFields)
        s   == MergeInput(s0, dec.obj)
        v   == ValidateSnip(NewValidator, s)
        u   == Update(tbl, s, exec)
    IN  IF VersionMismatch(s0, header)
        THEN Outcome(tbl, sq, editConflictResponse, ErrNone, ZeroSnip, issued)
        ELSE IF dec.err # ErrNone
        THEN Outcome(tbl, sq, badRequestResponse(dec.err), ErrNone, ZeroSnip, issued)
        ELSE IF ~Valid(v)
        THEN Outcome(tbl, sq, failedValidationResponse(v), ErrNone, s, issued)
        ELSE IF u.err = ErrEditConflict
        THEN Outcome(u.table, sq, editConflictResponse, u.err, s, issued \o u.stmts)
        ELSE IF u.err # ErrNone
        THEN Outcome(u.table, sq, serverErrorResponse, u.err, s, issued \o u.stmts)
        ELSE Outcome(u.table, sq, [Response(200, "") EXCEPT !.ret = u.snip],
                     ErrNone, s, issued \o u.stmts)

\* The safelist and the defaults listSnipsHandler configures.
SortSafelist ==
    << <<"i", "d">>, <<"t", "i", "t", "l", "e">>,
       <<"c", "o", "n", "t", "e", "n", "t">>,
       <<"-", "i", "d">>, <<"-", "t", "i", "t", "l", "e">>,
       <<"-", "c", "o", "n", "t", "e", "n", "t">> >>

\* listSnipsHandler going on to GetAll whatever ValidateFilters found.
listSnipsHandlerNoReturn(tbl, sq, qs, exec) ==
    LET title == readText(qs, "title", "")
        tags  == readCSV(qs, "tags", MkTags(<<>>))
        page  == readInt(qs, "page", 1, NewValidator)
        size  == readInt(qs, "page_size", 20, page.v)
        f     == [Page |-> page.val, PageSize |-> size.val,
                  Sort |-> readString(qs, "sort", <<"i", "d">>),
                  SortSafelist |-> SortSafelist]
        r     == GetAllWithMetadata(tbl, title, tags, f, exec)
    IN  IF r.err # ErrNone
        THEN Outcome(tbl, sq, serverErrorResponse, r.err, ZeroSnip, r.stmts)
        ELSE Outcome(tbl, sq,
                     [Response(200, "") EXCEPT !.snips = r.snips,
                                               !.metadata = r.metadata],
                     ErrNone, ZeroSnip, r.stmts)

listSnipsHandler(tbl, sq, qs, exec) ==
    LET title == readText(qs, "title", "")
        tags  == readCSV(qs, "tags", MkTags(<<>>))
        page  == readInt(qs, "page", 1, NewValidator)
        size  == readInt(qs, "page_size", 20, page.v)
        f     == [Page |-> page.val, PageSize |-> size.val,
                  Sort |-> readString(qs, "sort", <<"i", "d">>),
                  SortSafelist |-> SortSafelist]
        v     == ValidateFilters(size.v, f)
        r     == GetAllWithMetadata(tbl, title, tags, f, exec)
    IN  IF ~Valid(v)
        THEN Outcome(tbl, sq, failedValidationResponse(v), ErrNone, ZeroSnip, <<>>)
        ELSE IF r.err # ErrNone
        THEN Outcome(tbl, sq, serverErrorResponse, r.err, ZeroSnip, r.stmts)
        ELSE Outcome(tbl, sq,
                     [Response(200, "") EXCEPT !.snips = r.snips,
                                               !.metadata = r.metadata],
                     ErrNone, ZeroSnip, r.stmts)

---------------------------------------------------------------------------
(* The inputs of the model.                                                *)

Bodies ==
    { GoodBody([title |-> "t", content |-> "c", tags |-> <<"x", "y">>]),
      GoodBody([title |-> "u"]),
      GoodBody([content |-> "c2"]),
      GoodBody([title |-> "", tags |-> <<"y">>]),
      GoodBody([title |-> "t", version |-> 9]),
      GoodBody([title |-> "u", id |-> 9, created_at |-> 5]),
      BadBody }

Headers == { <<>>, <<"1">>, <<"2">> }

\* The id of a URL: every id the sequence has handed out (stored, deleted or
\* rejected), the next one, 0, and a non-number.
RawIds(tbl, sq) == {Itoa(i) : i \in 0..(sq + 1)} \cup { <<"x">> }

Queries ==
    { <<>>,
      [title |-> "t", tags |-> <<"x", ",", "y">>,
       sort |-> <<"-", "t", "i", "t", "l", "e">>],
      [tags |-> <<"y">>, page |-> <<"0">>],
      [tags |-> <<"y">>],
      [sort |-> <<"t", "i", "t", "l", "e">>],
      [page_size |-> <<"1">>],
      [page |-> <<"2">>, page_size |-> <<"1">>],
      [page_size |-> <<"2">>],
      [page |-> <<"1", "0", "0", "0", "0", "0", "0", "1">>,
       page_size |-> <<"1", "0", "1">>],
      [page |-> <<"1", "0", "0", "0", "0", "0", "0", "0">>,
       page_size |-> <<"1", "0", "0">>],
      [page |-> <<>>, page_size |-> <<>>, sort |-> <<>>],
      [page |-> <<"x">>, page_size |-> <<"0">>],
      [page |-> <<"-", "1">>],
      [sort |-> <<"x">>],
      [sort |-> <<"-", "-", "i", "d">>] }

\* Records handed to SnipModel.Insert directly: whatever ID, CreatedAt and
\* Version the caller left in them.
InsertArgs ==
    { [ID |-> 7, CreatedAt |-> 999, Title |-> "u", Content |-> "",
       Tags |-> MkTags(<<"y">>), Version |-> 5] }

\* Ids handed to SnipModel.Get and Delete directly: every id the sequence has
\* handed out, the next one, 0 and -1.
IdArgs(tbl, sq) == -1..(sq + 1)

\* Records handed to SnipModel.Update directly: an id the sequence has handed
\* out (stored or not) or the next one, with version 1 or 2.  The
\* tag list is never nil: updateSnipHandler, the caller of Update, passes the
\* list Get scanned or a decoded one.
UpdateArgs(tbl, sq) ==
    { [ID |-> id, CreatedAt |-> 0, Title |-> "u", Content |-> "c2",
       Tags |-> MkTags(<<"y">>), Version |-> ver] :
         id \in 1..(sq + 1), ver \in 1..2 }

---------------------------------------------------------------------------
(* The state machine.                                                      *)

NoOp ==
    [op |-> "none", exec |-> "ok", err |-> ErrNone, arg |-> ZeroSnip, id |-> 0,
     header |-> <<>>, body |-> BadBody, query |-> <<>>, fetched |-> ZeroSnip,
     resp |-> Response(0, ""), ret |-> ZeroSnip,
     stmts |-> <<>>, pre |-> <<>>, preSeq |-> 0]

\* The stored version of id, 0 when there is no such row.
StoredVersion(tbl, id) == IF id \in DOMAIN tbl THEN tbl[id].version ELSE 0

\* No store call is waiting.
NoCall == [op |-> "none", arg |-> ZeroSnip, id |-> 0, elapsed |-> 0]

Init ==
    /\ pending = NoCall
    /\ table = <<>>
    /\ seq = 0
    /\ pc = [p \in Procs |-> "idle"]
    /\ snip = [p \in Procs |-> ZeroSnip]
    /\ log = [p \in Procs |-> <<>>]
    /\ applied = <<>>
    /\ inserted = <<>>
    /\ deleted = <<>>
    /\ last = NoOp
    /\ writes = 0

\* Nothing has been observed yet: the behaviour goes on.
Running == last.op = "none"

\* An operation finishes and leaves the store as tbl, sq.  Either it is the
\* operation under observation, recorded in last with the store it started
\* from, or it is one of the operations before it and leaves no record.
Finish(rec, tbl, sq) ==
    /\ Running
    /\ UNCHANGED pending
    /\ table' = tbl
    /\ seq' = sq
    /\ \E observed \in BOOLEAN :
          IF observed
          THEN /\ last' = [rec EXCEPT !.pre = table, !.preSeq = seq]
               /\ writes' = writes
          ELSE /\ (tbl # table \/ sq # seq) => writes < MaxWrites
               /\ last' = last
               /\ writes' = IF tbl # table \/ sq # seq THEN writes + 1 ELSE writes

\* History of the Insert calls: the rows of `inserted` that the statement
\* leading to tbl has not written to, and, when created, the record s that a
\* successful Insert handed back.
Inserted(tbl, s, created) ==
    LET kept == {id \in DOMAIN inserted :
                    id \in DOMAIN tbl /\ id \in DOMAIN table /\ tbl[id] = table[id]}
        new  == IF created THEN {s.ID} ELSE {}
    IN  inserted' = [id \in kept \cup new |-> IF id \in new THEN s ELSE inserted[id]]

\* History of the Update calls: one more success for the pair s carried.
Updated(s, err) ==
    LET key == <<s.ID, s.Version>>
    IN  applied' =
          IF err # ErrNone THEN applied
          ELSE IF key \in DOMAIN applied
          THEN [applied EXCEPT ![key] = @ + 1]
          ELSE [k \in DOMAIN applied \cup {key} |->
                  IF k = key THEN 1 ELSE applied[k]]

\* History of the Delete calls: one more success for id when done.
Deleted(id, done) ==
    deleted' =
      IF ~done THEN deleted
      ELSE IF id \in DOMAIN deleted
      THEN [deleted EXCEPT ![id] = @ + 1]
      ELSE [k \in DOMAIN deleted \cup {id} |-> IF k = id THEN 1 ELSE deleted[k]]

(* POST /v1/snips *)
CreateSnip(body, exec) ==
    /\ LET out == createSnipHandler(table, seq, Now(seq), body, exec)
       IN  /\ Finish([NoOp EXCEPT !.op = "create", !.exec = exec, !.err = out.err,
                                  !.body = body,
                                  !.arg = out.arg, !.resp = out.resp,
                                  !.ret = out.resp.ret, !.stmts = out.stmts],
                     out.table, out.seq)
           /\ Inserted(out.table, out.resp.ret, out.resp.status = 201)
    /\ UNCHANGED <<pc, snip, log, applied, deleted>>

(* GET /v1/snips/{id} *)
ShowSnip(rawId, exec) ==
    /\ LET out == showSnipHandler(table, seq, rawId, exec)
       IN  Finish([NoOp EXCEPT !.op = "show", !.exec = exec, !.err = out.err,
                               !.id = readIDParam(rawId).id,
                               !.resp = out.resp, !.ret = out.resp.ret,
                               !.stmts = out.stmts],
                  out.table, out.seq)
    /\ UNCHANGED <<pc, snip, log, applied, inserted, deleted>>

(* DELETE /v1/snips/{id} *)
DeleteSnip(rawId, exec) ==
    /\ LET out == deleteSnipHandler(table, seq, rawId, exec)
       IN  /\ Finish([NoOp EXCEPT !.op = "delete", !.exec = exec, !.err = out.err,
                                  !.id = readIDParam(rawId).id,
                                  !.resp = out.resp, !.stmts = out.stmts],
                     out.table, out.seq)
           /\ Inserted(out.table, ZeroSnip, FALSE)
           /\ Deleted(readIDParam(rawId).id, out.resp.status = 200)
    /\ UNCHANGED <<pc, snip, log, applied>>

(* GET /v1/snips *)
ListSnips(qs, exec) ==
    /\ LET out == listSnipsHandler(table, seq, qs, exec)
       IN  Finish([NoOp EXCEPT !.op = "list", !.exec = exec, !.err = out.err,
                               !.query = qs, !.resp = out.resp,
                               !.stmts = out.stmts],
                  out.table, out.seq)
    /\ UNCHANGED <<pc, snip, log, applied, inserted, deleted>>

(* PATCH /v1/snips/{id}, first step: the id of the URL and the Get. *)
PatchFetch(p, rawId, exec) ==
    /\ pc[p] = "idle"
    /\ Running
    /\ LET f == updateSnipFetch(table, seq, rawId, exec)
       IN  IF f.fetched
           THEN /\ pc' = [pc EXCEPT ![p] = "fetched"]
                /\ snip' = [snip EXCEPT ![p] = f.snip]
                /\ log' = [log EXCEPT ![p] = f.out.stmts]
                /\ UNCHANGED <<table, seq, last, writes, applied, inserted, deleted,
                               pending>>
           ELSE /\ Finish([NoOp EXCEPT !.op = "patch", !.exec = exec,
                                       !.err = f.out.err,
                                       !.id = readIDParam(rawId).id,
                                       !.resp = f.out.resp,
                                       !.stmts = f.out.stmts],
                          f.out.table, f.out.seq)
                /\ UNCHANGED <<pc, snip, log, applied, inserted, deleted>>

(* PATCH /v1/snips/{id}, second step: from the header check to the response. *)
PatchWrite(p, header, body, exec) ==
    /\ pc[p] = "fetched"
    /\ LET out == updateSnipWrite(table, seq, snip[p], header, body, exec, log[p])
       IN  /\ Finish([NoOp EXCEPT !.op = "patch", !.exec = exec, !.err = out.err,
                                  !.arg = out.arg, !.id = snip[p].ID,
                                  !.header = header, !.body = body,
                                  !.fetched = snip[p],
                                  !.resp = out.resp, !.ret = out.resp.ret,
                                  !.stmts = out.stmts],
                     out.table, out.seq)
           /\ IF "UPDATE" \in Range(out.stmts)
              THEN Updated(out.arg, out.err)
              ELSE UNCHANGED applied
           /\ Inserted(out.table, ZeroSnip, FALSE)
    /\ pc' = [pc EXCEPT ![p] = "idle"]
    /\ snip' = [snip EXCEPT ![p] = ZeroSnip]
    /\ log' = [log EXCEPT ![p] = <<>>]
    /\ UNCHANGED deleted

(* Direct calls of the SnipModel methods. *)
CallInsert(s, exec) ==
    /\ LET r == Insert(table, seq, Now(seq), s, exec)
       IN  /\ Finish([NoOp EXCEPT !.op = "Insert", !.exec = exec, !.err = r.err,
                                  !.arg = s, !.ret = r.snip, !.stmts = r.stmts],
                     r.table, r.seq)
           /\ Inserted(r.table, r.snip, r.err = ErrNone)
    /\ UNCHANGED <<pc, snip, log, applied, deleted>>

CallGet(id, exec) ==
    /\ LET r == Get(table, id, exec)
       IN  Finish([NoOp EXCEPT !.op = "Get", !.exec = exec, !.err = r.err,
                               !.id = id, !.ret = r.snip, !.stmts = r.stmts],
                  table, seq)
    /\ UNCHANGED <<pc, snip, log, applied, inserted, deleted>>

CallUpdate(s, exec) ==
    /\ LET r == Update(table, s, exec)
       IN  /\ Finish([NoOp EXCEPT !.op = "Update", !.exec = exec, !.err = r.err,
                                  !.arg = s, !.id = s.ID, !.ret = r.snip,
                                  !.stmts = r.stmts],
                     r.table, seq)
           /\ Updated(s, r.err)
           /\ Inserted(r.table, ZeroSnip, FALSE)
    /\ UNCHANGED <<pc, snip, log, deleted>>

CallDelete(id, exec) ==
    /\ LET r == Delete(table, id, exec)
       IN  /\ Finish([NoOp EXCEPT !.op = "Delete", !.exec = exec, !.err = r.err,
                                  !.id = id, !.stmts = r.stmts],
                     r.table, seq)
           /\ Inserted(r.table, ZeroSnip, FALSE)
           /\ Deleted(id, r.err = ErrNone)
    /\ UNCHANGED <<pc, snip, log, applied>>

Next ==
    \/ \E body \in Bodies, exec \in ExecOutcomes : CreateSnip(body, exec)
    \/ \E rawId \in RawIds(table, seq), exec \in ExecOutcomes : ShowSnip(rawId, exec)
    \/ \E rawId \in RawIds(table, seq), exec \in ExecOutcomes : DeleteSnip(rawId, exec)
    \/ \E qs \in Queries, exec \in ExecOutcomes : ListSnips(qs, exec)
    \/ \E p \in Procs, rawId \in RawIds(table, seq), exec \in ExecOutcomes :
          PatchFetch(p, rawId, exec)
    \/ \E p \in Procs, header \in Headers, body \in Bodies, exec \in ExecOutcomes :
          PatchWrite(p, header, body, exec)
    \/ \E s \in InsertArgs, exec \in ExecOutcomes : CallInsert(s, exec)
    \/ \E id \in IdArgs(table, seq), exec \in ExecOutcomes : CallGet(id, exec)
    \/ \E s \in UpdateArgs(table, seq), exec \in ExecOutcomes : CallUpdate(s, exec)
    \/ \E id \in IdArgs(table, seq), exec \in ExecOutcomes : CallDelete(id, exec)

Spec == Init /\ [][Next]_vars

---------------------------------------------------------------------------
(* ValidateSnip on its own: a record is chosen, then validated.            *)

\* A text of n bytes.
RECURSIVE Text(_)
Text(n) ==
    IF n = 0 THEN ""
    ELSE IF n % 2 = 0 THEN LET h == Text(n \div 2) IN h \o h
    ELSE "a" \o Text(n - 1)

TenTags == <<"a", "b", "c", "d", "e", "f", "g", "h", "i", "j">>

\* Titles and contents at and around the limits of ValidateSnip, and tag
\* lists: nil, empty, one tag, a duplicate, an empty tag, ten and eleven
\* tags, and eleven tags with a duplicate and an empty one among them.
ValidateInputs ==
    { [ZeroSnip EXCEPT !.Title = title, !.Content = content, !.Tags = tags] :
        title   \in {"", "t", Text(1000), Text(1001)},
        content \in {"", "c", Text(100000), Text(100001)},
        tags    \in {NilTags, MkTags(<<>>), MkTags(<<"x">>), MkTags(<<"x", "x">>),
                     MkTags(<<"x", "">>), MkTags(<<"">>), MkTags(TenTags),
                     MkTags(TenTags \o <<"k">>),
                     MkTags(SubSeq(TenTags, 1, 9) \o <<"a", "">>)} }

ValidateInit ==
    /\ pending = NoCall
    /\ table = <<>>
    /\ seq = 0
    /\ pc = [p \in Procs |-> "idle"]
    /\ snip = [p \in Procs |-> ZeroSnip]
    /\ log = [p \in Procs |-> <<>>]
    /\ applied = <<>>
    /\ inserted = <<>>
    /\ deleted = <<>>
    /\ \E s \in ValidateInputs : last = [NoOp EXCEPT !.arg = s]
    /\ writes = 0

CallValidateSnip ==
    /\ Running
    /\ last' = [last EXCEPT !.op = "ValidateSnip",
                            !.resp.errors = ValidateSnip(NewValidator, last.arg)]
    /\ UNCHANGED <<table, seq, pc, snip, log, applied, inserted, deleted, writes,
                   pending>>

ValidateNext == CallValidateSnip

ValidateSpec == ValidateInit /\ [][ValidateNext]_vars

---------------------------------------------------------------------------
(* A store call under its deadline: every SnipModel method runs its        *)
(* statement with a context of context.WithTimeout(..., 3*time.Second).    *)
(* The call waits for the executor; the executor answers, or the three     *)
(* seconds pass and the call returns the error of the context.             *)

\* 3*time.Second, in seconds.
Timeout == 3

DeadlineExceeded == "context deadline exceeded"

\* The filters of a search with no parameters.
DefaultFilters ==
    [Page |-> 1, PageSize |-> 20, Sort |-> <<"i", "d">>,
     SortSafelist |-> SortSafelist]

\* The store calls a caller may make on the store tbl, sq.
StoreCalls(tbl, sq) ==
    {[NoCall EXCEPT !.op = "Insert", !.arg = s] : s \in InsertArgs}
    \cup {[NoCall EXCEPT !.op = "Get", !.id = id] : id \in IdArgs(tbl, sq)}
    \cup {[NoCall EXCEPT !.op = "GetAll"]}
    \cup {[NoCall EXCEPT !.op = "Update", !.arg = s, !.id = s.ID] :
             s \in UpdateArgs(tbl, sq)}
    \cup {[NoCall EXCEPT !.op = "Delete", !.id = id] : id \in IdArgs(tbl, sq)}

\* Store call c on the store tbl, sq when the executor does exec.
Perform(c, tbl, sq, exec) ==
    CASE c.op = "Insert" ->
           LET r == Insert(tbl, sq, Now(sq), c.arg, exec)
           IN  [table |-> r.table, seq |-> r.seq, err |-> r.err, stmts |-> r.stmts]
      [] c.op = "Get" ->
           LET r == Get(tbl, c.id, exec)
           IN  [table |-> tbl, seq |-> sq, err |-> r.err, stmts |-> r.stmts]
      [] c.op = "GetAll" ->
           LET r == GetAll(tbl, "", MkTags(<<>>), DefaultFilters, exec)
           IN  [table |-> tbl, seq |-> sq, err |-> r.err, stmts |-> r.stmts]
      [] c.op = "Update" ->
           LET r == Update(tbl, c.arg, exec)
           IN  [table |-> r.table, seq |-> sq, err |-> r.err, stmts |-> r.stmts]
      [] c.op = "Delete" ->
           LET r == Delete(tbl, c.id, exec)
           IN  [table |-> r.table, seq |-> sq, err |-> r.err, stmts |-> r.stmts]

\* Store call c returns: last is the call and what it returned.
Return(c, exec) ==
    LET r == Perform(c, table, seq, exec)
    IN  /\ table' = r.table
        /\ seq' = r.seq
        /\ last' = [NoOp EXCEPT !.op = c.op, !.exec = exec, !.err = r.err,
                                !.arg = c.arg, !.id = c.id, !.stmts = r.stmts,
                                !.pre = table, !.preSeq = seq]
        /\ writes' = IF r.table # table \/ r.seq # seq THEN writes + 1 ELSE writes
        /\ pending' = NoCall
        /\ UNCHANGED <<pc, snip, log, applied, inserted, deleted>>

\* A method is called.  One that sends no statement (id < 1) returns at
\* once; any other hands its statement to the executor and waits.
StoreCall(c) ==
    /\ pending.op = "none"
    /\ writes < MaxWrites
    /\ IF Perform(c, table, seq, "ok").stmts = <<>>
       THEN Return(c, "ok")
       ELSE /\ pending' = c
            /\ UNCHANGED <<table, seq, pc, snip, log, applied, inserted, deleted,
                           last, writes>>

\* A second passes while the call waits.
Tick ==
    /\ pending.op # "none"
    /\ pending.elapsed < Timeout
    /\ pending' = [pending EXCEPT !.elapsed = @ + 1]
    /\ UNCHANGED <<table, seq, pc, snip, log, applied, inserted, deleted, last,
                   writes>>

\* The executor answers within the deadline: the statement ran, or failed.
ExecutorAnswers(exec) ==
    /\ pending.op # "none"
    /\ pending.elapsed < Timeout
    /\ Return(pending, exec)

\* The deadline of the context passes: the statement is cancelled and the
\* call returns the error of the context.
DeadlineExpires ==
    /\ pending.op # "none"
    /\ pending.elapsed = Timeout
    /\ Return(pending, DeadlineExceeded)

TimeoutNext ==
    \/ \E c \in StoreCalls(table, seq) : StoreCall(c)
    \/ Tick
    \/ \E exec \in ExecOutcomes \ {DeadlineExceeded} : ExecutorAnswers(exec)
    \/ DeadlineExpires

\* Time passes, and the timer of the context fires when its time has come.
TimeoutSpec ==
    Init /\ [][TimeoutNext]_vars /\ WF_vars(Tick) /\ WF_vars(DeadlineExpires)

---------------------------------------------------------------------------
(* Properties.  They speak of the observed operation: last holds what it   *)
(* was given and what it answered, last.pre the table it ran against and   *)
(* table the table it left.                                                *)

\* The observed operation sent the UPDATE of SnipModel.Update, carrying
\* last.arg: a direct call, or the second step of a PATCH request.
UpdateCalled ==
    last.op \in {"Update", "patch"} /\ "UPDATE" \in Range(last.stmts)

\* The <<id, version>> pair the observed Update carried.
UpdateKey == <<last.arg.ID, last.arg.Version>>

\* The successful Update calls so far that named the row id.
WinsOn(id) == {k \in DOMAIN applied : k[1] = id}

\* C1: of the Update calls that carry the same (id, version = v), in any
\* interleaving of the two clients and the direct calls, at most one returns
\* without error; each one after the winner returns ErrEditConflict and leaves
\* the table as it found it; and the stored version of a row is 1 plus the
\* number of distinct pairs that won on it, so the two calls together take it
\* from v to v+1 and never to v+2.
C1_OneUpdateWins ==
    /\ \A k \in DOMAIN applied : applied[k] = 1
    /\ \A id \in DOMAIN table :
          table[id].version = DefaultVersion + Cardinality(WinsOn(id))
    /\ (UpdateCalled /\ last.exec = "ok" /\ last.err # ErrNone
          /\ UpdateKey \in DOMAIN applied)
        => /\ last.err = ErrEditConflict
           /\ table = last.pre

\* Two PATCH requests fetched the same (id, v); one has won, the observed one
\* lost, and the row stands at v+1.
C1_Witness ==
    /\ last.op = "patch"
    /\ UpdateCalled
    /\ last.err = ErrEditConflict
    /\ UpdateKey \in DOMAIN applied
    /\ StoredVersion(table, last.arg.ID) = last.arg.Version + 1

\* C2: an Update whose version is not the stored version of its id returns
\* ErrEditConflict when the executor runs the statement, and in every case
\* leaves the row as it was: Get right after returns what Get right before
\* returned.
C2_StaleUpdateRejected ==
    (UpdateCalled /\ last.arg.ID \in DOMAIN last.pre
       /\ last.arg.Version # last.pre[last.arg.ID].version)
    => /\ last.exec = "ok" => last.err = ErrEditConflict
       /\ last.err # ErrNone
       /\ last.arg.ID \in DOMAIN table
       /\ table[last.arg.ID] = last.pre[last.arg.ID]
       /\ Get(table, last.arg.ID, "ok") = Get(last.pre, last.arg.ID, "ok")

\* An Update with an already superseded version was turned away.
C2_Witness ==
    /\ UpdateCalled
    /\ last.exec = "ok"
    /\ last.arg.ID \in DOMAIN last.pre
    /\ last.arg.Version < last.pre[last.arg.ID].version
    /\ last.err = ErrEditConflict

\* C3: an Update carrying the stored version v of an existing row, run by the
\* executor, returns no error, stores the title, content and tags it was
\* given, sets the stored version to v+1 and hands v+1 back in the record.
C3_CurrentUpdateSucceeds ==
    (UpdateCalled /\ last.exec = "ok" /\ last.arg.ID \in DOMAIN last.pre
       /\ last.arg.Version = last.pre[last.arg.ID].version)
    => /\ last.err = ErrNone
       /\ last.arg.ID \in DOMAIN table
       /\ table[last.arg.ID].title = last.arg.Title
       /\ table[last.arg.ID].content = last.arg.Content
       /\ table[last.arg.ID].tags = last.arg.Tags.elems
       /\ table[last.arg.ID].version = last.arg.Version + 1
       /\ last.ret.Version = last.arg.Version + 1
       /\ last.op = "patch" => last.resp.status = 200

\* The scenario of the specification: content "c2" sent with version 1 is
\* stored and version 2 comes back.
C3_Witness ==
    /\ UpdateCalled
    /\ last.err = ErrNone
    /\ last.arg.Version = 1
    /\ last.ret.Version = 2
    /\ table[last.arg.ID].content = "c2"
    /\ table[last.arg.ID].tags # last.pre[last.arg.ID].tags

\* C4: whatever the observed operation was (a store call or a request), the
\* version column of a row it found differs afterwards only if the operation
\* was an Update that returned without error on that row, and then by exactly
\* +1; a row it created has the column default.  So neither the Version of a
\* record handed to Insert or Update, nor a "version" key of a body, nor the
\* X-Expected-Version header is ever stored.
C4_VersionOnlyByUpdate ==
    ~Running =>
      \A id \in DOMAIN table :
         IF id \in DOMAIN last.pre
         THEN \/ table[id].version = last.pre[id].version
              \/ /\ UpdateCalled
                 /\ last.err = ErrNone
                 /\ last.arg.ID = id
                 /\ table[id].version = last.pre[id].version + 1
         ELSE /\ last.op \in {"Insert", "create"}
              /\ table[id].version = DefaultVersion

\* A PATCH that named an expected version succeeded: the row moved from the
\* stored version to the next one.
C4_Witness ==
    /\ last.op = "patch"
    /\ last.header # <<>>
    /\ last.resp.status = 200
    /\ last.id \in DOMAIN last.pre
    /\ table[last.id].version = last.pre[last.id].version + 1

\* C5: an Update whose WHERE clause matches no row of the table returns
\* ErrEditConflict, also when the row is gone (deleted after the caller read
\* it); Update never returns ErrRecordNotFound; a failure of the executor
\* comes back as the executor's own error, which updateSnipHandler answers
\* with 500, as it answers ErrEditConflict with 409.
C5_NoRowIsEditConflict ==
    UpdateCalled =>
      /\ last.err # ErrRecordNotFound
      /\ (last.exec = "ok"
            /\ \A id \in DOMAIN last.pre :
                  ~(id = last.arg.ID /\ last.pre[id].version = last.arg.Version))
         => last.err = ErrEditConflict
      /\ last.exec # "ok" => (last.err = last.exec /\ table = last.pre)
      /\ last.op = "patch" =>
           /\ last.err = ErrEditConflict => last.resp.status = 409
           /\ last.err \notin {ErrNone, ErrEditConflict} => last.resp.status = 500

\* A PATCH fetched the record, the record was deleted, and the Update of the
\* PATCH found no row.
C5_Witness ==
    /\ last.op = "patch"
    /\ UpdateCalled
    /\ last.fetched.ID \notin DOMAIN last.pre
    /\ last.err = ErrEditConflict
    /\ last.resp.status = 409

\* The value of an X-Expected-Version header as a number, -1 when it is none.
HeaderVersion(header) ==
    IF ParseInt(header).ok THEN ParseInt(header).val ELSE -1

\* C6: a PATCH whose X-Expected-Version header is present and does not denote
\* the version of the record its Get fetched is answered 409 without any
\* UPDATE statement: the request issued its SELECT only and the table is as
\* it was.
C6_ExpectedVersionFirst ==
    (last.op = "patch" /\ last.fetched # ZeroSnip /\ last.header # <<>>
       /\ HeaderVersion(last.header) # last.fetched.Version)
    => /\ last.resp.status = 409
       /\ last.stmts = <<"SELECT">>
       /\ table = last.pre

\* A PATCH with a header naming another version than the fetched one was
\* turned away, although its body was valid and the fetched version current.
C6_Witness ==
    /\ last.op = "patch"
    /\ last.header # <<>>
    /\ last.fetched.ID \in DOMAIN last.pre
    /\ last.pre[last.fetched.ID].version = last.fetched.Version
    /\ HeaderVersion(last.header) # last.fetched.Version
    /\ last.resp.status = 409
    /\ "UPDATE" \notin Range(last.stmts)

\* The rows of tbl that the title and tags of query string qs select.
Matching(tbl, qs) ==
    {id \in DOMAIN tbl :
        RowMatches(tbl[id], readText(qs, "title", ""),
                   readCSV(qs, "tags", MkTags(<<>>)))}

C8_Original ==
    (last.op \in {"list", "create", "patch"} /\ last.resp.status = 422)
    => last.stmts = <<>>

\* C8, amended: the list and create handlers validate before any store call
\* and a validation failure issues no statement; the update handler has made
\* its Get by then, validates the merged record before its Update, and a
\* validation failure issues no UPDATE: the SELECT of the Get is the only
\* statement of the request.  In all three a failed validation leaves the
\* store as it was, and a record that reaches Insert or Update is valid.
C8_ValidationBeforeWrite ==
    /\ (last.op \in {"list", "create"} /\ last.resp.status = 422)
       => (last.stmts = <<>> /\ table = last.pre /\ seq = last.preSeq)
    /\ (last.op = "patch" /\ last.resp.status = 422)
       => (last.stmts = <<"SELECT">> /\ table = last.pre /\ seq = last.preSeq)
    /\ (last.op \in {"create", "patch"}
          /\ Range(last.stmts) \cap {"INSERT", "UPDATE"} # {})
       => Valid(ValidateSnip(NewValidator, last.arg))

\* A PATCH whose merged record failed validation: its Get had been made.
C8_Witness ==
    /\ last.op = "patch"
    /\ last.resp.status = 422
    /\ "title" \in DOMAIN last.resp.errors
    /\ last.stmts = <<"SELECT">>

\* C9: Get of an id that Insert assigned, with no statement having written
\* to that row since, returns the id, created_at, title, content and tags (in
\* the same order) that Insert handed back, and version 1.
C9_InsertGetRoundTrip ==
    (last.op \in {"Get", "show"} /\ last.exec = "ok" /\ last.id \in DOMAIN inserted)
    => /\ last.err = ErrNone
       /\ last.ret.ID = inserted[last.id].ID
       /\ last.ret.CreatedAt = inserted[last.id].CreatedAt
       /\ last.ret.Title = inserted[last.id].Title
       /\ last.ret.Content = inserted[last.id].Content
       /\ last.ret.Tags.elems = inserted[last.id].Tags.elems
       /\ last.ret.Version = 1

\* The record with tags x, y was inserted, another row was written since, and
\* the record was fetched.
C9_Witness ==
    /\ last.op \in {"Get", "show"}
    /\ last.id \in DOMAIN inserted
    /\ last.ret.Tags.elems = <<"x", "y">>
    /\ last.ret.Title = "t"
    /\ Cardinality(DOMAIN table) = 2

\* The observed operation inserted a row: Insert returned without error.
InsertDone ==
    \/ last.op = "Insert" /\ last.err = ErrNone
    \/ last.op = "create" /\ last.resp.status = 201

\* C10: a successful Insert hands back and stores version 1, the time of the
\* store and an id >= 1 drawn from the sequence, whatever ID, CreatedAt and
\* Version its input carried; the id is 1 when this is the first INSERT the
\* store runs, and it is the id of no row stored before, which all stay as
\* they were.
C10_InsertAssigns ==
    /\ \A id \in DOMAIN table : table[id].id = id
    /\ InsertDone =>
         LET id == last.ret.ID
         IN  /\ id >= 1
             /\ id = last.preSeq + 1
             /\ last.preSeq = 0 => id = 1
             /\ id \notin DOMAIN last.pre
             /\ DOMAIN table = DOMAIN last.pre \cup {id}
             /\ \A other \in DOMAIN last.pre : table[other] = last.pre[other]
             /\ last.ret.Version = 1
             /\ table[id].version = 1
             /\ last.ret.CreatedAt = Now(last.preSeq)
             /\ table[id].created_at = last.ret.CreatedAt

\* A record carrying ID 7, CreatedAt 999 and Version 5 was inserted next to a
\* stored row and came back with id 2 and version 1.
C10_Witness ==
    /\ last.op = "Insert"
    /\ last.err = ErrNone
    /\ last.arg.ID = 7
    /\ last.arg.Version = 5
    /\ last.ret.ID = 2
    /\ last.ret.Version = 1
    /\ Cardinality(DOMAIN table) = 2

\* The observed operation called SnipModel.Delete with last.id: a direct
\* call, or a DELETE request whose id parameter readIDParam accepted.
DeleteCalled ==
    \/ last.op = "Delete"
    \/ last.op = "delete" /\ last.id >= 1

\* C11: a Delete of an id that has no row returns ErrRecordNotFound when the
\* executor runs its statement (and without a statement for id < 1); an id
\* whose Delete succeeded never has a row again, whatever is inserted later,
\* so no id is deleted successfully twice; and a Delete that returns
\* ErrRecordNotFound leaves the table and the sequence as they were and is
\* answered 404 by deleteSnipHandler.
C11_DeleteOnceThenNotFound ==
    /\ \A id \in DOMAIN deleted : deleted[id] = 1 /\ id \notin DOMAIN table
    /\ DeleteCalled =>
         /\ (last.id \notin DOMAIN last.pre /\ (last.exec = "ok" \/ last.id < 1))
            => last.err = ErrRecordNotFound
         /\ last.err = ErrRecordNotFound
            => /\ table = last.pre
               /\ seq = last.preSeq
               /\ last.id \notin DOMAIN last.pre
               /\ last.op = "delete" => last.resp.status = 404

\* A second Delete of an id whose first Delete succeeded: it found no row.
C11_Witness ==
    /\ DeleteCalled
    /\ last.exec = "ok"
    /\ last.id \in DOMAIN deleted
    /\ last.err = ErrRecordNotFound
    /\ table = last.pre

\* C12: Get and Delete called with id < 1 return ErrRecordNotFound and send
\* nothing to the executor, whether it would have worked or not; Get with
\* id >= 1 sends one SELECT, returns ErrRecordNotFound when no row has that
\* id, the record when one has, and the executor's own error, which is
\* neither ErrRecordNotFound nor ErrEditConflict, when the executor fails;
\* showSnipHandler answers these 404, 200 and 500.
C12_GetDeleteErrors ==
    /\ (last.op \in {"Get", "Delete"} /\ last.id < 1)
       => /\ last.err = ErrRecordNotFound
          /\ last.stmts = <<>>
          /\ table = last.pre
    /\ (last.op \in {"Get", "show"} /\ last.id >= 1)
       => /\ last.stmts = <<"SELECT">>
          /\ (last.exec = "ok" /\ last.id \notin DOMAIN last.pre)
             => last.err = ErrRecordNotFound
          /\ (last.exec = "ok" /\ last.id \in DOMAIN last.pre)
             => (last.err = ErrNone /\ last.ret.ID = last.id)
          /\ last.exec # "ok"
             => /\ last.err = last.exec
                /\ last.err \notin {ErrNone, ErrRecordNotFound, ErrEditConflict}
          /\ last.op = "show"
             => last.resp.status =
                  (IF last.err = ErrNone THEN 200
                   ELSE IF last.err = ErrRecordNotFound THEN 404 ELSE 500)

\* Get was called with id 0 while the executor was failing: it returned
\* ErrRecordNotFound and the executor was never asked.
C12_Witness ==
    /\ last.op = "Get"
    /\ last.id = 0
    /\ last.exec # "ok"
    /\ last.err = ErrRecordNotFound
    /\ last.stmts = <<>>

\* The Filters that listSnipsHandler builds from the sort parameter of qs.
SortFilters(qs) ==
    [Sort |-> readString(qs, "sort", <<"i", "d">>), SortSafelist |-> SortSafelist]

\* C13: whenever a search sent its SELECT, the sort parameter was a member of
\* the safelist and the column put into ORDER BY is a safelist entry without
\* its leading "-"; a sort parameter outside the safelist, with a "-" in
\* front or not, is answered 422 with a "sort" error and no statement is
\* sent.
C13_SortFromSafelist ==
    last.op = "list" =>
      LET f == SortFilters(last.query)
      IN  /\ last.stmts # <<>>
             => /\ f.Sort \in Range(SortSafelist)
                /\ sortColumn(f) \in {TrimPrefix(s, "-") : s \in Range(SortSafelist)}
                /\ sortColumn(f) \in
                     {<<"i", "d">>, <<"t", "i", "t", "l", "e">>,
                      <<"c", "o", "n", "t", "e", "n", "t">>}
          /\ f.Sort \notin Range(SortSafelist)
             => /\ last.resp.status = 422
                /\ "sort" \in DOMAIN last.resp.errors
                /\ last.stmts = <<>>

\* A search sorted by "--id", which is "-id" of the safelist behind one more
\* "-", was turned away.
C13_Witness ==
    /\ last.op = "list"
    /\ SortFilters(last.query).Sort = <<"-", "-", "i", "d">>
    /\ last.resp.status = 422
    /\ "sort" \in DOMAIN last.resp.errors
    /\ last.stmts = <<>>

\* The value a returned record has in the column named col, as a number that
\* orders like it.
RecordKey(s, col) ==
    IF col = <<"i", "d">> THEN s.ID
    ELSE IF col = <<"t", "i", "t", "l", "e">> THEN TextRank(s.Title)
    ELSE TextRank(s.Content)

\* C14: the records of a search come in the order of the sort column in the
\* sort direction and, among records equal in that column, of ascending id:
\* of any two returned records the earlier one is strictly before the later
\* one in that order.  The order leaves no two records tied, so the sequence
\* over a given table is the only one possible.
C14_TotalOrder ==
    (last.op = "list" /\ last.resp.status = 200)
    => LET snips == last.resp.snips
           sort  == SortFilters(last.query).Sort
           col   == TrimPrefix(sort, "-")
           desc  == HasPrefix(sort, "-")
       IN  \A i, j \in DOMAIN snips :
              i < j =>
                LET ki == RecordKey(snips[i], col)
                    kj == RecordKey(snips[j], col)
                IN  \/ (IF desc THEN ki > kj ELSE ki < kj)
                    \/ (ki = kj /\ snips[i].ID < snips[j].ID)

\* A search sorted by -title returned two records with the same title, the
\* lower id first.
C14_Witness ==
    /\ last.op = "list"
    /\ last.resp.status = 200
    /\ SortFilters(last.query).Sort = <<"-", "t", "i", "t", "l", "e">>
    /\ Len(last.resp.snips) = 2
    /\ last.resp.snips[1].Title = last.resp.snips[2].Title
    /\ last.resp.snips[1].ID < last.resp.snips[2].ID

\* The Filters that listSnipsHandler builds from the parameters of qs.
QueryFilters(qs) ==
    [Page |-> readInt(qs, "page", 1, NewValidator).val,
     PageSize |-> readInt(qs, "page_size", 20, NewValidator).val,
     Sort |-> readString(qs, "sort", <<"i", "d">>),
     SortSafelist |-> SortSafelist]

\* The rows of tbl that qs selects, all of them, in the order qs asks for.
OrderedMatches(tbl, qs) ==
    LET sort == SortFilters(qs).Sort
    IN  OrderRows({tbl[id] : id \in Matching(tbl, qs)},
                  TrimPrefix(sort, "-"),
                  IF HasPrefix(sort, "-") THEN "DESC" ELSE "ASC")

\* C15: for the page and page_size of a search that passed validation,
\* limit() is page_size and offset() is (page - 1) * page_size, and the
\* search returns at most page_size records: those at the positions
\* offset() + 1 .. offset() + page_size of the ordered sequence of all
\* matching rows.
C15_PageApplied ==
    (last.op = "list" /\ last.resp.status = 200)
    => LET f     == QueryFilters(last.query)
           all   == OrderedMatches(last.pre, last.query)
           lo    == offset(f) + 1
           hi    == IF offset(f) + limit(f) < Len(all)
                    THEN offset(f) + limit(f) ELSE Len(all)
           snips == last.resp.snips
       IN  /\ limit(f) = f.PageSize
           /\ offset(f) = (f.Page - 1) * f.PageSize
           /\ Len(snips) <= f.PageSize
           /\ Len(snips) = (IF hi >= lo THEN hi - lo + 1 ELSE 0)
           /\ \A i \in DOMAIN snips : snips[i] = ScanRow(all[lo + i - 1])

\* The tags and the title that listSnipsHandler reads from qs.
QueryTags(qs) == readCSV(qs, "tags", MkTags(<<>>)).elems

QueryTitle(qs) == readText(qs, "title", "")

\* C16: the records of a search are those of the rows that pass the tag
\* filter and the title filter.  An empty tag list lets every row pass; a
\* non-empty one lets a row pass when each listed tag is among the row's
\* tags, whatever other tags the row has.  An empty title lets every row
\* pass.
C16_TagContainment ==
    (last.op = "list" /\ last.resp.status = 200)
    => LET tags     == QueryTags(last.query)
           title    == QueryTitle(last.query)
           returned == {last.resp.snips[i].ID : i \in DOMAIN last.resp.snips}
           TagOK(row)   == \A k \in DOMAIN tags :
                              \E j \in DOMAIN row.tags : row.tags[j] = tags[k]
           TitleOK(row) == \/ title = ""
                           \/ Lexemes(title) \subseteq Lexemes(row.title)
       IN  /\ returned = {id \in DOMAIN last.pre :
                             TagOK(last.pre[id]) /\ TitleOK(last.pre[id])}
           /\ (tags = <<>> /\ title = "") => returned = DOMAIN last.pre
           /\ title = "" => returned = {id \in DOMAIN last.pre : TagOK(last.pre[id])}
           /\ tags = <<>> => returned = {id \in DOMAIN last.pre : TitleOK(last.pre[id])}

\* A search for the one tag "y" with no title returned a record that has two
\* tags.
C16_Witness ==
    /\ last.op = "list"
    /\ last.resp.status = 200
    /\ QueryTags(last.query) = <<"y">>
    /\ QueryTitle(last.query) = ""
    /\ \E i \in DOMAIN last.resp.snips : Len(last.resp.snips[i].Tags.elems) = 2

\* The search had no title, no tags, and the filters listSnipsHandler falls
\* back to: page 1, page_size 20, sort id.
DefaultSearch ==
    /\ last.op = "list"
    /\ QueryTitle(last.query) = ""
    /\ QueryTags(last.query) = <<>>
    /\ QueryFilters(last.query).Page = 1
    /\ QueryFilters(last.query).PageSize = 20
    /\ QueryFilters(last.query).Sort = <<"i", "d">>

C18_NoMatchIsNotAnError ==
    (last.op = "list" /\ last.stmts # <<>>)
    => /\ last.err # ErrNone <=> last.exec # "ok"
       /\ last.exec # "ok" => (last.err = last.exec /\ last.resp.status = 500)
       /\ (last.exec = "ok" /\ Matching(last.pre, last.query) = {})
          => /\ last.err = ErrNone
             /\ last.resp.status = 200
             /\ last.resp.snips = <<>>

\* A search over a table that holds a row, none matching, was answered 200
\* with no record.
C18_Witness ==
    /\ last.op = "list"
    /\ last.exec = "ok"
    /\ DOMAIN last.pre # {}
    /\ Matching(last.pre, last.query) = {}
    /\ last.err = ErrNone
    /\ last.resp.status = 200
    /\ last.resp.snips = <<>>

\* C19: the metadata of a search answered 200 is the zero Metadata when no
\* row matches, whatever page and page_size were asked for; otherwise its
\* first_page is 1, its current_page and page_size are the ones asked for,
\* its total_records is the number of matching rows, and its last_page is
\* the least number of pages of page_size records that hold them all.
C19_MetadataOfTotal ==
    (last.op = "list" /\ last.resp.status = 200)
    => LET m     == last.resp.metadata
           f     == QueryFilters(last.query)
           total == Cardinality(Matching(last.pre, last.query))
       IN  IF total = 0
           THEN m = [CurrentPage |-> 0, PageSize |-> 0, FirstPage |-> 0,
                     LastPage |-> 0, TotalRecords |-> 0]
           ELSE /\ m.FirstPage = 1
                /\ m.CurrentPage = f.Page
                /\ m.PageSize = f.PageSize
                /\ m.TotalRecords = total
                /\ m.LastPage * f.PageSize >= total
                /\ (m.LastPage - 1) * f.PageSize < total

\* A search with page_size 1 that two rows match put last_page at 2; the
\* same theorem covers last_page 1 for page_size 2 and 20.
C19_Witness ==
    /\ last.op = "list"
    /\ last.resp.status = 200
    /\ QueryFilters(last.query).PageSize = 1
    /\ Cardinality(Matching(last.pre, last.query)) = 2
    /\ last.resp.metadata.LastPage = 2
    /\ last.resp.metadata.FirstPage = 1

\* The parameter key of qs is not there, or is there with no value.
Absent(qs, key) == key \notin DOMAIN qs \/ qs[key] = <<>>

\* The parameter key of qs is there and is a decimal integer.
IsInteger(qs, key) == ~Absent(qs, key) /\ ParseInt(qs[key]).ok

\* The search was turned away with an error for the field key.
FieldError(key) == last.resp.status = 422 /\ key \in DOMAIN last.resp.errors

\* C20: a search whose page is an integer gets a "page" error exactly when
\* the page is not in 1 .. 10,000,000, and one whose page_size is an integer
\* gets a "page_size" error exactly when it is not in 1 .. 100; a search
\* with either error is answered 422 and sends no statement.  An absent or
\* empty page, page_size or sort gets no error for that field, and when the
\* search is answered 200 with records, an absent page reads 1 in the
\* metadata, an absent page_size reads 20, and under an absent sort the
\* records come by ascending id.
C20_FilterRanges ==
    last.op = "list" =>
      LET qs    == last.query
          m     == last.resp.metadata
          snips == last.resp.snips
      IN  /\ IsInteger(qs, "page")
             => (FieldError("page") <=> ~(ParseInt(qs["page"]).val \in 1..10000000))
          /\ IsInteger(qs, "page_size")
             => (FieldError("page_size") <=> ~(ParseInt(qs["page_size"]).val \in 1..100))
          /\ (FieldError("page") \/ FieldError("page_size")) => last.stmts = <<>>
          /\ Absent(qs, "page") => ~FieldError("page")
          /\ Absent(qs, "page_size") => ~FieldError("page_size")
          /\ Absent(qs, "sort") => ~FieldError("sort")
          /\ (last.resp.status = 200 /\ snips # <<>>)
             => /\ Absent(qs, "page") => m.CurrentPage = 1
                /\ Absent(qs, "page_size") => m.PageSize = 20
                /\ Absent(qs, "sort")
                   => \A i, j \in DOMAIN snips : i < j => snips[i].ID < snips[j].ID

\* A search for page 10,000,001 with page_size 101 was turned away with an
\* error for each field, and no statement was sent.
C20_Witness ==
    /\ last.op = "list"
    /\ IsInteger(last.query, "page")
    /\ ParseInt(last.query["page"]).val = 10000001
    /\ IsInteger(last.query, "page_size")
    /\ ParseInt(last.query["page_size"]).val = 101
    /\ FieldError("page")
    /\ FieldError("page_size")
    /\ last.stmts = <<>>

\* A tag list has the same entry at two places.
HasDuplicate(tags) == \E i, j \in DOMAIN tags : i # j /\ tags[i] = tags[j]

\* A tag list has an empty string among its entries.
HasEmptyTag(tags) == \E i \in DOMAIN tags : tags[i] = ""

FirstMessages(s) ==
    LET tags == s.Tags.elems
        title   == IF s.Title = "" THEN <<"must be provided">>
                   ELSE IF Len(s.Title) > 1000
                   THEN <<"must not be more than 500 bytes long">>
                   ELSE <<>>
        content == IF Len(s.Content) > 100000
                   THEN <<"must not be more than 100000 bytes long">>
                   ELSE <<>>
        tagmsg  == IF Len(tags) > 10 THEN <<"must contain no more than 5 tags">>
                   ELSE IF HasDuplicate(tags)
                   THEN <<"must not contain duplicate values">>
                   ELSE IF HasEmptyTag(tags)
                   THEN <<"tags must not contain empty values">>
                   ELSE <<>>
    IN  [k \in {f \in {"title", "content", "tags"} :
                  (CASE f = "title" -> title [] f = "content" -> content
                     [] OTHER -> tagmsg) # <<>>}
           |-> (CASE k = "title" -> title [] k = "content" -> content
                  [] OTHER -> tagmsg)[1]]

\* The messages of all the checks of ValidateSnip that record s fails.
FailedChecks(s) ==
    LET tags == s.Tags.elems
    IN  {m \in {"must be provided", "must not be more than 500 bytes long",
                "must not be more than 100000 bytes long",
                "must contain no more than 5 tags",
                "must not contain duplicate values",
                "tags must not contain empty values"} :
           \/ m = "must be provided" /\ s.Title = ""
           \/ m = "must not be more than 500 bytes long" /\ Len(s.Title) > 1000
           \/ m = "must not be more than 100000 bytes long" /\ Len(s.Content) > 100000
           \/ m = "must contain no more than 5 tags" /\ Len(tags) > 10
           \/ m = "must not contain duplicate values" /\ HasDuplicate(tags)
           \/ m = "tags must not contain empty values" /\ HasEmptyTag(tags)}

\* C22 as claimed: after one pass of ValidateSnip the caller sees every
\* violation of the record: the message of each check the record fails is
\* among the errors reported.
C22_Original ==
    last.op = "ValidateSnip"
    => FailedChecks(last.arg) \subseteq Range(last.resp.errors)

\* C22: ValidateSnip does not stop at a failed check: after one pass the
\* errors name every field, of title, content and tags, for which the record
\* fails a check, whatever the other fields failed, with one message a
\* field: that of the first check the field fails.
C22_EveryFieldReported ==
    last.op = "ValidateSnip"
    => last.resp.errors = FirstMessages(last.arg)

\* A record with an empty title, content over 100000 bytes and eleven tags,
\* a duplicate and an empty one among them, was validated: three errors, and
\* for the tags the message of the count check.
C22_Witness ==
    /\ last.op = "ValidateSnip"
    /\ last.arg.Title = ""
    /\ Len(last.arg.Content) > 100000
    /\ Len(last.arg.Tags.elems) = 11
    /\ HasDuplicate(last.arg.Tags.elems)
    /\ HasEmptyTag(last.arg.Tags.elems)
    /\ DOMAIN last.resp.errors = {"title", "content", "tags"}
    /\ last.resp.errors["tags"] = "must contain no more than 5 tags"

\* The last store call sent a statement and ran into its deadline.
TimedOut == last.stmts # <<>> /\ last.exec = DeadlineExceeded

CountOf(stmts, k) == Cardinality({i \in DOMAIN stmts : stmts[i] = k})

\* C24: nothing is sent twice.  A call of Insert, Get, Update or Delete sends
\* at most one statement, its own, whether the executor fails or not; a
\* request sends at most one statement for each store operation its handler
\* uses: create at most one INSERT, show and list at most one SELECT, delete
\* at most one DELETE, and PATCH at most one SELECT followed by at most one
\* UPDATE.
C24_NoRetry ==
    /\ \A k \in {"INSERT", "SELECT", "UPDATE", "DELETE"} : CountOf(last.stmts, k) <= 1
    /\ last.op \in {"Insert", "create"} => last.stmts \in {<<>>, <<"INSERT">>}
    /\ last.op \in {"Get", "show", "list"} => last.stmts \in {<<>>, <<"SELECT">>}
    /\ last.op = "Update" => last.stmts = <<"UPDATE">>
    /\ last.op \in {"Delete", "delete"} => last.stmts \in {<<>>, <<"DELETE">>}
    /\ last.op = "patch"
       => last.stmts \in {<<>>, <<"SELECT">>, <<"SELECT", "UPDATE">>}
    /\ \A p \in Procs : log[p] \in {<<>>, <<"SELECT">>}

\* A PATCH request whose Update failed in the executor was answered 500
\* after one SELECT and one UPDATE.
C24_Witness ==
    /\ last.op = "patch"
    /\ last.exec # "ok"
    /\ last.err = last.exec
    /\ last.resp.status = 500
    /\ last.stmts = <<"SELECT", "UPDATE">>

\* The observed operation is a request.
IsRequest == last.op \in {"create", "show", "delete", "list", "patch"}

\* C25: a request whose store call failed with anything but
\* ErrRecordNotFound and ErrEditConflict is answered with one and the same
\* response, status 500 and a fixed message, whichever error it was: the
\* response holds nothing of the error, so two runs of a request that differ
\* only in the store error answer alike.  ErrRecordNotFound is answered 404,
\* ErrEditConflict 409 and a validation failure 422 with its field errors,
\* each with a message of its own.
C25_GenericFailureResponse ==
    IsRequest =>
      /\ last.err \notin {ErrNone, ErrRecordNotFound, ErrEditConflict}
         => last.resp =
              [status |-> 500,
               message |-> "the server encountered a problem and could not process your request",
               errors |-> <<>>, ret |-> ZeroSnip, snips |-> <<>>,
               metadata |-> ZeroMetadata]
      /\ (last.exec \in ExecErrs /\ last.stmts # <<>> /\ last.err # ErrNone)
         => (last.err = last.exec /\ last.resp.status = 500)
      /\ last.resp.status = 500 => last.err \notin {ErrNone, ErrRecordNotFound, ErrEditConflict}
      /\ last.err = ErrRecordNotFound
         => (last.resp.status = 404
             /\ last.resp.message = "the requested resource could not be found")
      /\ last.err = ErrEditConflict
         => (last.resp.status = 409
             /\ last.resp.message =
                  "unable to update the record due to an edit conflict, please try again")
      /\ last.resp.status = 422 => (last.err = ErrNone /\ DOMAIN last.resp.errors # {})
      /\ DOMAIN last.resp.errors # {} => last.resp.status = 422

\* A PATCH request whose Get failed on a bad connection was answered with
\* the fixed 500 response.
C25_Witness ==
    /\ last.op = "patch"
    /\ last.stmts = <<"SELECT">>
    /\ last.err = "driver: bad connection"
    /\ last.resp.status = 500
    /\ last.resp.message =
         "the server encountered a problem and could not process your request"

\* C26: every stored record keeps the id and the created_at it was inserted
\* with, through every operation there has been; and an Update, direct or of
\* a PATCH request, whether it succeeds or not, neither adds nor removes a
\* record, leaves id and created_at of every record as they were, and
\* leaves every record other than the one whose id it names as it was.
C26_IdAndCreatedAtImmutable ==
    /\ \A id \in DOMAIN table :
          table[id].id = id /\ table[id].created_at = Now(id - 1)
    /\ UpdateCalled
       => /\ DOMAIN table = DOMAIN last.pre
          /\ \A id \in DOMAIN last.pre :
                /\ table[id].id = last.pre[id].id
                /\ table[id].created_at = last.pre[id].created_at
                /\ id # last.arg.ID => table[id] = last.pre[id]
    /\ last.op = "patch" /\ ~UpdateCalled => table = last.pre

\* An Update whose record carried another created_at than the stored one
\* succeeded on one of two stored records: the row has its new version and
\* the created_at it had.
C26_Witness ==
    /\ last.op = "Update"
    /\ last.err = ErrNone
    /\ Cardinality(DOMAIN table) = 2
    /\ last.arg.CreatedAt # last.pre[last.arg.ID].created_at
    /\ table[last.arg.ID].version = last.pre[last.arg.ID].version + 1
    /\ table[last.arg.ID].created_at = last.pre[last.arg.ID].created_at

\* C27: when a PATCH request is answered 200, whatever the other client and
\* the direct calls did between its Get and its Update, the row its UPDATE
\* found was still the record it had fetched, and the row after it is that
\* record with the fields the body holds replaced by the body's values and
\* the version one higher: a field the body does not hold is as the UPDATE
\* found it, so nothing another request wrote is overwritten by it.
C27_NoLostUpdate ==
    (last.op = "patch" /\ last.resp.status = 200)
    => LET id  == last.fetched.ID
           obj == last.body.obj
       IN  /\ id \in DOMAIN last.pre
           /\ id \in DOMAIN table
           /\ ScanRow(last.pre[id]) = last.fetched
           /\ table[id].id = last.fetched.ID
           /\ table[id].created_at = last.fetched.CreatedAt
           /\ table[id].version = last.fetched.Version + 1
           /\ table[id].title = IF "title" \in DOMAIN obj THEN obj["title"]
                                ELSE last.pre[id].title
           /\ table[id].content = IF "content" \in DOMAIN obj THEN obj["content"]
                                  ELSE last.pre[id].content
           /\ table[id].tags = IF "tags" \in DOMAIN obj THEN obj["tags"]
                               ELSE last.pre[id].tags
           /\ last.resp.ret = ScanRow(table[id])

\* A PATCH request that held only a content was answered 200 on a row whose
\* title a request before it had changed: the row keeps that title, has the
\* new content and version 3.
C27_Witness ==
    /\ last.op = "patch"
    /\ last.resp.status = 200
    /\ DOMAIN last.body.obj = {"content"}
    /\ last.fetched.Version = 2
    /\ last.fetched.Title = "u"
    /\ table[last.fetched.ID].title = "u"
    /\ table[last.fetched.ID].content = "c2"
    /\ table[last.fetched.ID].version = 3

\* C28: an id that a Delete has removed is never stored again: every stored
\* id and every deleted id is one the sequence has handed out, a successful
\* Insert (direct or of a POST request) assigns the next value of the
\* sequence, which is above every id handed out before and so is no stored
\* and no deleted id, and an Update that names a deleted id, whatever version
\* it carries, returns an error and leaves every stored record as it was.
C28_IdsNeverReused ==
    /\ \A id \in DOMAIN deleted : id \notin DOMAIN table /\ id \in 1..seq
    /\ DOMAIN table \subseteq 1..seq
    /\ (last.op \in {"Insert", "create"} /\ last.stmts # <<>> /\ last.err = ErrNone)
       => /\ last.ret.ID = last.preSeq + 1
          /\ last.ret.ID \notin DOMAIN last.pre
          /\ last.ret.ID \notin DOMAIN deleted
          /\ DOMAIN table = DOMAIN last.pre \cup {last.ret.ID}
    /\ (UpdateCalled /\ last.arg.ID \in DOMAIN deleted)
       => /\ table = last.pre
          /\ last.err # ErrNone
          /\ last.exec = "ok" => last.err = ErrEditConflict

\* The one record of the table, id 1, was deleted; the Insert after it
\* assigned id 2.
C28_Witness ==
    /\ last.op = "Insert"
    /\ last.err = ErrNone
    /\ 1 \in DOMAIN deleted
    /\ last.pre = <<>>
    /\ last.ret.ID = 2
    /\ DOMAIN table = {2}

\* C29: a PATCH request answered 404 (an id that is no positive number, or
\* no record), 400 (a body that does not decode), 422 (the merged record
\* fails validation) or, on an X-Expected-Version that is not the fetched
\* version, 409, has sent no UPDATE and leaves the table and the sequence as
\* they were; so does a POST request answered 400 or 422, which has sent no
\* statement at all.
C29_FailedRequestWritesNothing ==
    /\ (last.op = "patch" /\ last.resp.status \in {404, 400, 422})
       => /\ "UPDATE" \notin Range(last.stmts)
          /\ table = last.pre
          /\ seq = last.preSeq
    /\ (last.op = "patch" /\ last.resp.status = 409)
       => /\ table = last.pre
          /\ seq = last.preSeq
          /\ (last.header # <<>> /\ Itoa(last.fetched.Version) # last.header)
             => "UPDATE" \notin Range(last.stmts)
          /\ "UPDATE" \notin Range(last.stmts)
             => (last.header # <<>> /\ Itoa(last.fetched.Version) # last.header)
    /\ (last.op = "create" /\ last.resp.status \in {400, 422})
       => /\ last.stmts = <<>>
          /\ table = last.pre
          /\ seq = last.preSeq

\* A PATCH request for a stored record came with a body that does not
\* decode: answered 400 after its SELECT, and the table is as it was.
C29_Witness ==
    /\ last.op = "patch"
    /\ last.body = BadBody
    /\ last.resp.status = 400
    /\ last.fetched.ID \in DOMAIN last.pre
    /\ last.stmts = <<"SELECT">>
    /\ table = last.pre

\* C30: a POST request whose record passed ValidateSnip, so that its INSERT
\* was sent, and whose executor did not fail, is answered 201 and its record
\* is stored: also when the body holds no tags, or no content.
C30_ValidatedRecordAccepted ==
    (last.op = "create" /\ last.stmts # <<>> /\ last.exec = "ok")
    => /\ last.resp.status = 201
       /\ last.err = ErrNone
       /\ last.ret.ID \in DOMAIN table

====
